---------------------------- MODULE Spec2Model ----------------------------
(***************************************************************************)
(* A model of the Aegean source finder (src/aegean.py) and of the FFT      *)
(* background estimator (src/AegeanTools/BANE_fft.py).                     *)
(*                                                                         *)
(* Four specifications share the variables below; each one drives one part *)
(* of the program and leaves the variables of the other parts at rest:     *)
(*   SpecFlood  gen_flood_wrap, the island segmenter                       *)
(*   SpecFit    estimate_lmfit_parinfo, fit_island_lmfit,                  *)
(*              result_to_components, the report step of fit_island_mpfit  *)
(*   SpecFind   find_sources_in_image, the orchestrator                    *)
(*   SpecBane   robust_bane, the FFT background estimator                  *)
(*                                                                         *)
(* Floating point values that can be NaN are records [nan, v]: every       *)
(* comparison with a NaN is false, as in IEEE arithmetic.                   *)
(***************************************************************************)
EXTENDS Integers, Sequences, FiniteSets

VARIABLES
    \* ---- gen_flood_wrap ----
    fdata,      \* the data array (mutated in place through data_box)
    frms,       \* the rms array
    fclip,      \* [inner, outer]: innerclip and outerclip
    fregion,    \* domask and global_data.region is not None
    fsnr,       \* the snr array computed on entry
    fpc,        \* "call" | "loop" | "done"
    fi,         \* the loop index i of "for i in range(n)"
    fout,       \* the islands yielded so far
    \* ---- fit_island_lmfit / fit_island_mpfit ----
    lmfit_available, \* whether "import lmfit" succeeded
    isle,       \* the IslandFittingData being fitted, and max_summits
    params,     \* the seeds of estimate_lmfit_parinfo, one record per component
    model,      \* the parameters handed to result_to_components
    is_flag,    \* the island flags handed to result_to_components
    optimised,  \* whether lmfit.minimize / mpfit was called for the island
    success,    \* result.success of the optimiser
    qpc,        \* "start" | "report" | "summary" | "done"
    j,          \* the component index of the report loop
    comp,       \* the component reported last
    sources,    \* the list the fit returns: (island, source, flags) per entry
    isum,       \* the IslandSource appended when doislandflux is set
    \* ---- find_sources_in_image ----
    cores,      \* the number of processes
    twoComp,    \* the islands whose fit returns two components, not one
    nyield,     \* the number of islands gen_flood_wrap has yielded
    isle_num,   \* the island counter
    ids,        \* per island yielded so far: the id it was given, 0 if passed over
    island_group, \* the islands waiting to be submitted
    inflight,   \* the groups submitted to workers and not yet finished
    queue,      \* the results, in the order the queue received them
    found,      \* the list find_sources_in_image returns
    gpc,        \* "loop" | "collect" | "done"
    \* ---- robust_bane ----
    image,      \* the input image: shape and pixels
    header,     \* the FITS header: whether it holds a beam, pixels per beam
    nan_mask,   \* the mask get_nan_mask returned
    bkgrms,     \* the pixels of the maps robust_bane returns
    bpc,        \* "call" | "rounds" | "returned" | the exception raised
    bcalls,     \* the number of calls of robust_bane that have returned
    bfirst,     \* the maps the first call returned
    \* ---- get_kernel ----
    kargs,      \* the arguments: header, step_size, box_size
    kret,       \* what the call returned or raised
    \* ---- priorized_fit_source / priorized_fit_island ----
    stage,      \* the stage argument (options.priorized)
    fn,         \* "priorized_fit_source" | "priorized_fit_island"
    input_sources, \* the sorted input catalog: island, source, usable
    prior_k,    \* the number of catalog rows the loop has consumed
    prior_out,  \* the components fitted so far
    prior_pc,   \* "loop" | "done" | the exception raised
    \* ---- estimate_lmfit_parinfo / priorized_fit_source on pixels ----
    sarg,       \* the arguments: an island (data, curve) or a catalog source
    sret,       \* the seeds returned, and how the island was classified
    \* ---- island_itergen ----
    it_input,   \* the catalog argument
    itergen,    \* the locals of the generator and what it has yielded
    \* ---- make_bkg_rms_from_global ----
    tile_arg,   \* the image shape, the mesh widths, cores
    tiles,      \* the tile estimates that have not been written yet
    bkgimg,     \* global_data.bkgimg / rmsimg and the writes each pixel got
    tpc,        \* "call" | "write" | "done"
    \* ---- the background lookup of result_to_components ----
    lookup      \* the slice shape, the fitted position, the index used

floodVars == <<fdata, frms, fclip, fregion, fsnr, fpc, fi, fout>>

fitVars == <<lmfit_available, isle, params, model, is_flag, optimised, success,
             qpc, j, comp, sources, isum>>

findVars == <<cores, twoComp, nyield, isle_num, ids, island_group, inflight,
              queue, found, gpc>>

baneVars == <<image, header, nan_mask, bkgrms, bpc, bcalls, bfirst>>

kernelVars == <<kargs, kret>>

priorVars == <<stage, fn, input_sources, prior_k, prior_out, prior_pc>>

seedVars == <<sarg, sret>>

itergenVars == <<it_input, itergen>>

tileVars == <<tile_arg, tiles, bkgimg, tpc>>

lookupVars == <<lookup>>

lateVars == <<sarg, sret, it_input, itergen, tile_arg, tiles, bkgimg, tpc, lookup>>

vars == <<fdata, frms, fclip, fregion, fsnr, fpc, fi, fout,
          lmfit_available, isle, params, model, is_flag, optimised, success,
          qpc, j, comp, sources, isum,
          cores, twoComp, nyield, isle_num, ids, island_group, inflight, queue,
          found, gpc,
          image, header, nan_mask, bkgrms, bpc, bcalls, bfirst,
          kargs, kret,
          stage, fn, input_sources, prior_k, prior_out, prior_pc,
          sarg, sret, it_input, itergen, tile_arg, tiles, bkgimg, tpc, lookup>>

-----------------------------------------------------------------------------
(* Floating point values *)

NaN == [nan |-> TRUE, v |-> 0]

Fl(x) == [nan |-> FALSE, v |-> x]

isfinite(x) == ~x.nan

Abs(n) == IF n < 0 THEN -n ELSE n

Min2(a, b) == IF a <= b THEN a ELSE b

Max2(a, b) == IF a >= b THEN a ELSE b

-----------------------------------------------------------------------------
(* gen_flood_wrap: bounds and inputs *)

\* the image of the segmenter has FloodH rows and FloodW columns
FloodH == 2

FloodW == 3

\* at most MaxLit pixels of the image differ from quiet background
MaxLit == 2

\* the default clips of find_sources_in_image
DefaultInnerclip == 5

DefaultOuterclip == 4

Rows == 0 .. (FloodH - 1)

Cols == 0 .. (FloodW - 1)

Pix == Rows \X Cols

\* a quiet pixel: data 0 on rms 1
QuietPixel == [d |-> Fl(0), r |-> Fl(1)]

\* the other pixels an image holds: a masked pixel, a blank pixel (data 0 on
\* rms 0, a zero-padded region whose inter-quartile range is 0), and pixels at
\* the flood clip, at the seed clip and above it, of either sign
LitPixels ==
    { [d |-> NaN, r |-> Fl(1)],
      [d |-> Fl(0), r |-> Fl(0)],
      [d |-> Fl(DefaultOuterclip), r |-> Fl(1)],
      [d |-> Fl(DefaultInnerclip), r |-> Fl(1)],
      [d |-> Fl(DefaultInnerclip + 1), r |-> Fl(1)],
      [d |-> Fl(-(DefaultInnerclip + 1)), r |-> Fl(1)] }

\* (innerclip, outerclip): the defaults, and outerclip = None (= innerclip)
ClipChoices ==
    { [inner |-> DefaultInnerclip, outer |-> DefaultOuterclip],
      [inner |-> DefaultInnerclip, outer |-> DefaultInnerclip] }

FloodImages(pix) ==
    UNION { { [p \in pix |-> IF p \in L THEN lit[p] ELSE QuietPixel] :
                lit \in [L -> LitPixels] } :
            L \in {S \in SUBSET pix : Cardinality(S) <= MaxLit} }

-----------------------------------------------------------------------------
(* gen_flood_wrap: snr = abs(data)/rmsimg and its comparisons *)

\* abs(d)/r: NaN when either is NaN or both are 0, +inf when only r is 0
snrOf(d, r) ==
    IF d.nan \/ r.nan \/ (d.v = 0 /\ r.v = 0)
    THEN [nan |-> TRUE, inf |-> FALSE, num |-> 0, den |-> 1]
    ELSE IF r.v = 0
    THEN [nan |-> FALSE, inf |-> TRUE, num |-> 0, den |-> 1]
    ELSE [nan |-> FALSE, inf |-> FALSE, num |-> Abs(d.v), den |-> r.v]

\* s >= c, s > c and s < c for a clip c >= 0 and rms >= 0
snrGe(s, c) == ~s.nan /\ (s.inf \/ s.num >= c * s.den)

snrGt(s, c) == ~s.nan /\ (s.inf \/ s.num > c * s.den)

snrLt(s, c) == ~s.nan /\ ~s.inf /\ s.num < c * s.den

-----------------------------------------------------------------------------
(* scipy.ndimage.label with the default structure (4-connectivity) and     *)
(* find_objects, as gen_flood_wrap uses them                               *)

Adjacent(p, q) == Abs(p[1] - q[1]) + Abs(p[2] - q[2]) = 1

RECURSIVE Grow(_, _)
Grow(S, mask) ==
    LET T == S \cup {q \in mask : \E p \in S : Adjacent(p, q)}
    IN  IF T = S THEN S ELSE Grow(T, mask)

RasterIndex(p) == p[1] * FloodW + p[2]

FirstPixel(S) == CHOOSE p \in S : \A q \in S : RasterIndex(p) <= RasterIndex(q)

\* the labelled regions of a mask
Regions(mask) == { Grow({p}, mask) : p \in mask }

\* label(a): region number k (1-based) is the k-th region in raster order of
\* its first pixel
label(mask, k) ==
    CHOOSE R \in Regions(mask) :
        Cardinality({Q \in Regions(mask) :
            RasterIndex(FirstPixel(Q)) < RasterIndex(FirstPixel(R))}) = k - 1

\* find_objects(l)[k-1]: the slices (start, stop) of region k on both axes
find_objects(R) ==
    LET rs == {p[1] : p \in R}
        cs == {p[2] : p \in R}
        lo(S) == CHOOSE x \in S : \A y \in S : x <= y
        hi(S) == CHOOSE x \in S : \A y \in S : x >= y
    IN  [xstart |-> lo(rs), xstop |-> hi(rs) + 1,
         ystart |-> lo(cs), ystop |-> hi(cs) + 1]

\* the pixels of the slice [xmin:xmax+1, ymin:ymax+1] (numpy clips a slice to
\* the array)
boxPixels(xmin, xmax, ymin, ymax) ==
    { p \in Pix : xmin <= p[1] /\ p[1] <= xmax /\ ymin <= p[2] /\ p[2] <= ymax }

\* a = snr >= outerclip
aboveMask(snr, outer) == { p \in Pix : snrGe(snr[p], outer) }

\* np.any(snr[xmin:xmax+1, ymin:ymax+1] > innerclip)
seedTest(snr, box, inner) == \E p \in box : snrGt(snr[p], inner)

\* data_box[np.where(snr[...] < outerclip)] = np.nan, written through the view
floodMask(data, snr, box, outer) ==
    [p \in Pix |-> IF p \in box /\ snrLt(snr[p], outer) THEN NaN ELSE data[p]]

-----------------------------------------------------------------------------
(* Fitting one island: estimate_lmfit_parinfo, fit_island_lmfit,           *)
(* result_to_components, fit_island_mpfit                                  *)
(*                                                                         *)
(* Flags are sets of flag names (a bitwise or is a union).  Shape widths   *)
(* sx, sy are held in hundredths of fwhm2cc pixels, positions in half      *)
(* pixels, angles in degrees, sky sizes in arcseconds.                     *)

MaxSide == 3
MaxSummits == 2
MaxMaxSummits == 1
MaxPa == 540

\* global_data.pixbeam: get_pixbeam returns Beam(abs(major), abs(minor), 0)
pixbeam == [a |-> 1, b |-> 1, pa |-> 0]

\* max_summits: None or a count
NoMaxSummits == [given |-> FALSE, n |-> 0]
MaxSummitsChoices ==
    {NoMaxSummits} \cup {[given |-> TRUE, n |-> n] : n \in 0 .. MaxMaxSummits}

\* The islands handed to fit_island_*: the shape of the pixel array, the
\* number of its finite pixels, the number of summits the curvature map
\* gives that pass the SNR test of line 813, and the scalars.
Islands ==
    { [isle_num |-> 1, nx |-> nx, ny |-> ny, npix |-> n, summits |-> k,
       max_summits |-> m, doislandflux |-> f] :
        nx \in 1 .. MaxSide, ny \in 1 .. MaxSide, n \in 1 .. MaxSide * MaxSide,
        k \in 0 .. MaxSummits, m \in MaxSummitsChoices, f \in BOOLEAN }


\* lines 762-770
sizeFlag(non_nan_pix) ==
    IF 4 <= non_nan_pix /\ non_nan_pix <= 6 THEN {"FIXED2PSF"}
    ELSE IF non_nan_pix < 4 THEN {"FITERRSMALL"}
    ELSE {}

\* line 774 testing the shape alone
tinySummit_shapeOnly(i) == Min2(i.nx, i.ny) <= 2

\* line 774
tinySummit(i) ==
    \/ Min2(i.nx, i.ny) <= 2
    \/ "FITERRSMALL" \in sizeFlag(i.npix)
    \/ "FIXED2PSF" \in sizeFlag(i.npix)

\* line 567: the same test in estimate_mpfit_parinfo
tinySummitMp(i) ==
    \/ Min2(i.nx, i.ny) <= 2
    \/ "FITERRSMALL" \in sizeFlag(i.npix)

\* an array holds no more finite pixels than pixels, and the curvature map
\* is searched for summits on the other branch of lines 567, 774 only
ValidIsland(i) ==
    /\ i.npix <= i.nx * i.ny
    /\ tinySummitMp(i) => i.summits = 0

\* lines 774-788: the island flag and the number of summits that get a
\* component (a tiny island has one summit, the whole array, whose peak
\* is above innerclip because gen_flood_wrap seeded it)
estimateFlag(i) ==
    IF tinySummit(i) THEN sizeFlag(i.npix) \cup {"FIXED2PSF"} ELSE sizeFlag(i.npix)

estimateCount(i) == IF tinySummit(i) THEN 1 ELSE i.summits

\* lines 840-841: xmax, ymax of a tiny summit are the array shape; a summit
\* of the curvature map is taken to be one pixel with gen_flood_wrap's
\* exclusive stop
summitSize(i) == IF tinySummit(i) THEN Max2(i.nx, i.ny) + 1 ELSE 2

\* lines 844-859
seedSx == Max2(100 * pixbeam.a, 101 * pixbeam.b)
seedSy == 100 * pixbeam.b
shapeMin(s) == (80 * s) \div 100
shapeMax(i) == Max2((summitSize(i) + 1) * 141, (110 * seedSx) \div 100)

\* lines 793-907: the parameters of summit number c (from 0)
seedComponent(i, c) ==
    LET maxxed == i.max_summits.given /\ c >= i.max_summits.n
        summit_flag == IF maxxed
                       THEN estimateFlag(i) \cup {"NOTFIT", "FIXED2PSF"}
                       ELSE estimateFlag(i)
        psf_vary == IF "FIXED2PSF" \in summit_flag THEN FALSE ELSE ~maxxed
    IN  [val |-> [amp |-> 10 - c, xo |-> 2 * c, yo |-> 0,
                  sx |-> seedSx, sy |-> seedSy, theta |-> pixbeam.pa],
         vary |-> [amp |-> ~maxxed, xo |-> ~maxxed, yo |-> ~maxxed,
                   sx |-> psf_vary, sy |-> psf_vary, theta |-> psf_vary],
         flags |-> summit_flag]

estimate_lmfit_parinfo(i) ==
    [c \in 1 .. estimateCount(i) |-> seedComponent(i, c - 1)]

ParNames == {"amp", "xo", "yo", "sx", "sy", "theta"}

\* line 2726
free_vars(pars) ==
    Cardinality({<<c, n>> \in (1 .. Len(pars)) \X ParNames : pars[c].vary[n]})

\* lmfit.minimize: a parameter held fixed keeps its value, a varying one
\* ends anywhere inside its bounds.  The outcomes kept are the seed, a
\* moved peak, a shape with sx < sy and a shape with sx = sy.
fitPeak(c) ==
    IF c.vary.amp
    THEN {[amp |-> c.val.amp, xo |-> c.val.xo, yo |-> c.val.yo],
          [amp |-> c.val.amp + 1, xo |-> c.val.xo + 1, yo |-> c.val.yo + 1]}
    ELSE {[amp |-> c.val.amp, xo |-> c.val.xo, yo |-> c.val.yo]}

fitShape(i, c) ==
    IF c.vary.sx
    THEN {[sx |-> c.val.sx, sy |-> c.val.sy, theta |-> c.val.theta],
          [sx |-> shapeMin(c.val.sx), sy |-> shapeMax(i), theta |-> 135],
          [sx |-> shapeMax(i), sy |-> shapeMax(i), theta |-> -180]}
    ELSE {[sx |-> c.val.sx, sy |-> c.val.sy, theta |-> c.val.theta]}

fitComponent(i, c) ==
    { [c EXCEPT !.val = [amp |-> pk.amp, xo |-> pk.xo, yo |-> pk.yo,
                         sx |-> sh.sx, sy |-> sh.sy, theta |-> sh.theta]] :
        pk \in fitPeak(c), sh \in fitShape(i, c) }

do_lmfit(i, pars) ==
    { m \in [1 .. Len(pars) -> UNION {fitComponent(i, pars[c]) : c \in 1 .. Len(pars)}] :
        \A c \in 1 .. Len(pars) : m[c] \in fitComponent(i, pars[c]) }

\* pa_limit with "<" for "<=" in the first loop
pa_limit_strict(pa) ==
    IF pa < -90 THEN ((pa + 90) % 180) - 90
    ELSE IF pa > 90 THEN ((pa + 89) % 180) - 89
    ELSE pa

\* lines 2181-2190
RECURSIVE pa_limit(_)
pa_limit(pa) ==
    IF pa <= -90 THEN pa_limit(pa + 180)
    ELSE IF pa > 90 THEN pa_limit(pa - 180)
    ELSE pa

\* pa_limit of a float: NaN fails both loop tests and is returned
pa_limit_f(x) == IF x.nan THEN NaN ELSE Fl(pa_limit(x.v))

\* lines 2169-2178: a comparison with NaN is false
fix_shape(s) ==
    IF ~s.a.nan /\ ~s.b.nan /\ s.a.v < s.b.v
    THEN [s EXCEPT !.a = s.b, !.b = s.a,
                   !.pa = IF s.pa.nan THEN NaN ELSE Fl(s.pa.v + 90)]
    ELSE s

\* What pix2sky_vec returns (lines 2276-2298): the WCS, gcd and bear are
\* outside the program, so the outcome is any of these.  A point the WCS
\* cannot place is NaN; the length and the bearing need both end points.
SkyLen == 600
RaVals == {Fl(-360), Fl(-2), Fl(0), Fl(359)}
PaVals == {Fl(-180), Fl(-90), Fl(-45), Fl(0), Fl(90), Fl(135), Fl(180)}
pix2sky_vec ==
    {[ra |-> NaN, dec |-> NaN, a |-> NaN, pa |-> NaN]}
    \cup {[ra |-> r, dec |-> Fl(0), a |-> NaN, pa |-> NaN] : r \in RaVals}
    \cup {[ra |-> r, dec |-> Fl(0), a |-> Fl(SkyLen), pa |-> Fl(0)] : r \in RaVals}
    \cup {[ra |-> Fl(0), dec |-> Fl(0), a |-> Fl(SkyLen), pa |-> p] : p \in PaVals}

\* what pix2sky returns for the peak pixel of an island (line 1264)
pix2sky == {NaN} \cup RaVals

\* the right ascension left as the WCS gave it
wrapRa_absent(ra) == ra

\* "if source.ra < 0: source.ra += 360" (lines 1203-1204, 1268-1269)
wrapRa(ra) == IF ~ra.nan /\ ra.v < 0 THEN Fl(ra.v + 360) ELSE ra

\* line 2418: abs((major/minor)**2 + (minor/major)**2 - 2) < 0.01, which for
\* positive sizes is ((a*a - b*b)/(a*b))**2 < 1/100
nearCircular(a, b) == 10 * Abs(a * a - b * b) < a * b

\* lines 2382-2426: the Condon errors of a source.  A computed error is
\* the value 1 when its inputs are finite and NaN when they are not.
calc_errors(s) ==
    LET bad == s.a.nan \/ s.b.nan \/ s.b.v = 0
        e == IF bad THEN NaN ELSE Fl(1)
        epos == IF bad \/ s.pa.nan THEN NaN ELSE Fl(1)
    IN  [s EXCEPT !.err_peak_flux = e, !.err_a = e, !.err_b = e,
                  !.err_ra = epos, !.err_dec = epos, !.err_int_flux = e,
                  !.err_pa = IF bad THEN NaN
                             ELSE IF nearCircular(s.a.v, s.b.v) THEN Fl(-1)
                             ELSE e]

\* the overrides of lines 1217-1234 without the one for sx, sy
fixedErrors_noShape(s, vary) ==
    [s EXCEPT !.err_ra = IF ~vary.xo \/ ~vary.yo THEN Fl(-1) ELSE @,
              !.err_dec = IF ~vary.xo \/ ~vary.yo THEN Fl(-1) ELSE @,
              !.err_pa = IF ~vary.theta THEN Fl(-1) ELSE @,
              !.err_peak_flux = IF ~vary.amp THEN Fl(-1) ELSE @,
              !.err_int_flux = IF ~vary.amp THEN Fl(-1) ELSE @]

\* lines 1217-1234: a parameter that was not fitted has no error
fixedErrors(s, vary) ==
    [s EXCEPT !.err_ra = IF ~vary.xo \/ ~vary.yo THEN Fl(-1) ELSE @,
              !.err_dec = IF ~vary.xo \/ ~vary.yo THEN Fl(-1) ELSE @,
              !.err_a = IF ~vary.sx \/ ~vary.sy THEN Fl(-1) ELSE @,
              !.err_b = IF ~vary.sx \/ ~vary.sy THEN Fl(-1) ELSE @,
              !.err_pa = IF ~vary.theta THEN Fl(-1) ELSE @,
              !.err_peak_flux = IF ~vary.amp THEN Fl(-1) ELSE @,
              !.err_int_flux = IF ~vary.amp THEN Fl(-1) ELSE @]

\* a source before anything is written to it
OutputSource ==
    [island |-> 0, source |-> 0, flags |-> {}, peak_flux |-> 0,
     ra |-> NaN, dec |-> NaN, a |-> NaN, b |-> NaN, pa |-> NaN,
     err_ra |-> Fl(0), err_dec |-> Fl(0), err_a |-> Fl(0), err_b |-> Fl(0),
     err_pa |-> Fl(0), err_peak_flux |-> NaN, err_int_flux |-> Fl(0),
     via |-> "none",
     val |-> [amp |-> 0, xo |-> 0, yo |-> 0, sx |-> 0, sy |-> 0, theta |-> 0],
     vary |-> [n \in ParNames |-> FALSE]]

\* lines 1183-1196: the sky shape of a component from (sx, sy) and the
\* vector w returned by pix2sky_vec
skyShape(m, w) ==
    LET major == IF m.val.sx >= m.val.sy THEN m.val.sx ELSE m.val.sy
        minor == IF m.val.sx >= m.val.sy THEN m.val.sy ELSE m.val.sx
    IN  [a |-> w.a,
         b |-> IF w.a.nan THEN NaN ELSE Fl((w.a.v * minor) \div major),
         pa |-> pa_limit_f(w.pa)]

\* line 1200
allFinite(ra, dec, a, pa) == ~ra.nan /\ ~dec.nan /\ ~a.nan /\ ~pa.nan

\* lines 1150-1240 for component c (from 0) of model, when line 1200 finds
\* the sky values finite
component(isl, m, c, flag, w) ==
    LET sh == skyShape(m, w)
        s0 == [OutputSource EXCEPT
                 !.island = isl.isle_num, !.source = c,
                 !.flags = flag \cup m.flags, !.peak_flux = m.val.amp,
                 !.ra = wrapRa(w.ra), !.dec = w.dec,
                 !.a = sh.a, !.b = sh.b, !.pa = sh.pa,
                 !.via = "lmfit", !.val = m.val, !.vary = m.vary]
    IN  fixedErrors(calc_errors(s0), m.vary)

\* lines 567-708: the parinfo of summit number c (from 0); "fixed" is kept
\* as vary = not fixed
seedComponentMp(i, c) ==
    LET maxxed == i.max_summits.given /\ c >= i.max_summits.n
        flag == IF tinySummitMp(i)
                THEN sizeFlag(i.npix) \cup {"FIXED2PSF"}
                ELSE sizeFlag(i.npix)
        fixed == "FIXED2PSF" \in flag \/ maxxed
    IN  [val |-> [amp |-> 10 - c, xo |-> 2 * c, yo |-> 0,
                  sx |-> 100 * pixbeam.a, sy |-> 100 * pixbeam.b,
                  theta |-> pa_limit(pixbeam.pa)],
         vary |-> [amp |-> ~maxxed, xo |-> ~maxxed, yo |-> ~maxxed,
                   sx |-> ~fixed, sy |-> ~fixed, theta |-> ~fixed],
         flags |-> flag]

estimate_mpfit_parinfo(i) ==
    [c \in 1 .. (IF tinySummitMp(i) THEN 1 ELSE i.summits) |->
        seedComponentMp(i, c - 1)]

\* mpfit: as do_lmfit, the position angle being unlimited (line 705)
do_mpfit(i, pars) ==
    { m \in [1 .. Len(pars) -> UNION {fitComponent(i, pars[c]) : c \in 1 .. Len(pars)}] :
        \A c \in 1 .. Len(pars) : m[c] \in fitComponent(i, pars[c]) }

\* line 2577: the length that the second pix2sky_vec call returns for the
\* minor axis; with no first end point there is no second length
minorLengths(w) ==
    IF w.ra.nan THEN {NaN}
    ELSE {NaN, Fl(SkyLen \div 2), Fl(2 * SkyLen)}

\* lines 2529-2596 for component c (from 0)
componentMp(isl, m, c, flag, w, blen) ==
    LET wcserr == IF allFinite(w.ra, w.dec, w.a, w.pa) THEN {} ELSE {"WCSERR"}
        s0 == [OutputSource EXCEPT
                 !.island = isl.isle_num, !.source = c,
                 !.flags = flag \cup m.flags \cup wcserr,
                 !.peak_flux = m.val.amp,
                 !.ra = wrapRa(w.ra), !.dec = w.dec,
                 !.a = w.a, !.b = blen, !.pa = w.pa,
                 !.via = "mpfit", !.val = m.val, !.vary = m.vary]
        s1 == fix_shape(s0)
        s2 == [s1 EXCEPT !.pa = pa_limit_f(s1.pa)]
    IN  calc_errors(s2)

\* the list entry kept for a source once the next one is being written
entry(s) == [island |-> s.island, source |-> s.source, flags |-> s.flags]

\* the IslandSource of lines 1251-1322, and its absence
NoIslandSource == [present |-> FALSE, island |-> 0, components |-> 0, ra |-> NaN]

-----------------------------------------------------------------------------
(* find_sources_in_image: the loop over the islands and the worker queue *)

MaxYield == 22
MaxCores == 2
\* at most MaxSkip of the islands yielded are passed over
MaxSkip == 1
\* line 2856
group_size == 20

\* lines 2858-2861: the counter after an island that is kept or passed
\* over ("continue" comes before "isle_num += 1")
next_isle_num_always(n, kept) == n + 1

next_isle_num(n, kept) == IF kept THEN n + 1 ELSE n

\* the islands that may be given two components
TwoCompChoices == SUBSET {1, 2, group_size + 1}

\* the (island, source) pairs of the components fitted to island n
fit_island(n, two) ==
    IF n \in two THEN << <<n, 0>>, <<n, 1>> >> ELSE << <<n, 0>> >>

\* fit_islands (lines 2752-2766): the islands of a group in turn
RECURSIVE fit_islands(_, _)
fit_islands(group, two) ==
    IF group = <<>> THEN <<>>
    ELSE fit_island(Head(group), two) \o fit_islands(Tail(group), two)

\* lines 2886-2893: the results of the queue, appended in queue order
RECURSIVE collect(_)
collect(q) == IF q = <<>> THEN <<>> ELSE Head(q) \o collect(Tail(q))

-----------------------------------------------------------------------------
(* BANE_fft: get_kernel, get_nan_mask, robust_bane *)

MaxH == 2
MaxW == 4
\* at most MaxBright pixels of the image hold a source, at most MaxBlank
\* are NaN
MaxBright == 1
MaxBlank == 2

\* the value of a pixel that holds a source
Bright == 10

\* pixels per beam, in tenths of a pixel, that the header may give
PixPerBeam10 == {1, 2, 4, 40}

Headers == {[beam |-> b, ppb10 |-> q] : b \in BOOLEAN, q \in PixPerBeam10}

pixelsOf(h, w) == (0 .. (h - 1)) \X (0 .. (w - 1))

\* the images of a shape: up to MaxBright source pixels, up to MaxBlank
\* NaN pixels, the other pixels empty
imagesOf(h, w) ==
    UNION { { [h |-> h, w |-> w,
               px |-> [p \in pixelsOf(h, w) |->
                         IF p \in B THEN Fl(Bright)
                         ELSE IF p \in N THEN NaN ELSE Fl(0)]] :
                N \in { S \in SUBSET (pixelsOf(h, w) \ B) :
                          Cardinality(S) <= MaxBlank } } :
            B \in { S \in SUBSET pixelsOf(h, w) : Cardinality(S) <= MaxBright } }

Images(maxh, maxw) ==
    UNION { imagesOf(h, w) : <<h, w>> \in (1 .. maxh) \X (1 .. maxw) }

ceilDiv(a, b) == (a + b - 1) \div b

\* step_size=None and box_size=None ("not step_size" is also true of 0)
None == 0

\* lines 145-168: a size that is None or negative is derived from the beam
\* (3 steps and 10 boxes per beam by default, abs(size) otherwise); the
\* beam is parsed, and pix_per_beam assigned, only inside the step_size
\* branch
get_kernel(hdr, step_size, box_size) ==
    LET stepFromBeam == step_size = None \/ step_size < 0
        npix_step == IF step_size = None THEN 3 ELSE Abs(step_size)
        step == IF stepFromBeam THEN ceilDiv(hdr.ppb10, npix_step * 10)
                ELSE step_size
        boxFromBeam == box_size = None \/ box_size < 0
        npix_box == IF box_size = None THEN 10 ELSE Abs(box_size)
        box == IF boxFromBeam THEN ceilDiv(hdr.ppb10 * npix_box, 10 * step)
               ELSE box_size
    IN  IF stepFromBeam /\ ~hdr.beam
        THEN [raised |-> "ValueError", radius |-> 0, step_size |-> 0]
        ELSE IF ~stepFromBeam /\ boxFromBeam
        THEN [raised |-> "UnboundLocalError", radius |-> 0, step_size |-> 0]
        ELSE [raised |-> "none", radius |-> box \div 2, step_size |-> step]

\* lines 101-115: the cells of the kernel that are 1
tophat_kernel(radius) ==
    { k \in (0 .. 2 * radius) \X (0 .. 2 * radius) :
        (k[1] - radius) * (k[1] - radius) + (k[2] - radius) * (k[2] - radius)
            <= radius * radius }

\* line 166: kernel.sum()
kern_sum(radius) == Cardinality(tophat_kernel(radius))

\* lines 32-42: rfft2(kernel, s=shape) crops the kernel to the image shape
\* (or pads it with zeros)
ft_kernel(kernel, h, w) == { k \in kernel : k[1] < h /\ k[2] < w }

\* lines 117-130: the circular convolution of isfinite(image) with the
\* kernel, and the pixels where it is below 1
get_nan_mask(img, radius) ==
    LET kernel == ft_kernel(tophat_kernel(radius), img.h, img.w)
        conv(p) == Cardinality({ k \in kernel :
                      isfinite(img.px[<<(p[1] - k[1]) % img.h, (p[2] - k[2]) % img.w>>]) })
    IN  { p \in pixelsOf(img.h, img.w) : conv(p) < 1 }

\* lines 226-232: the length of image_mask[slice(0, n - n % step + 1, step)]
downsampled(n, step) ==
    Cardinality({ x \in 0 .. (n - 1) : x % step = 0 /\ x < n - (n % step) + 1 })

\* line 217: np.nan_to_num(image)
nan_to_num(img) ==
    [p \in pixelsOf(img.h, img.w) |-> IF img.px[p].nan THEN 0 ELSE img.px[p].v]

\* lines 222-228 and 252: arr[(y_slice, x_slice)]
downsample(arr, h, w, step) ==
    [q \in pixelsOf(downsampled(h, step), downsampled(w, step)) |->
        arr[<<q[1] * step, q[2] * step>>]]

\* the sum of arr over the cells q - k of a circular convolution
RECURSIVE convSum(_, _, _, _, _)
convSum(arr, h, w, q, cells) ==
    IF cells = {} THEN 0
    ELSE LET k == CHOOSE c \in cells : TRUE
         IN  arr[<<(q[1] - k[1]) % h, (q[2] - k[2]) % w>>]
                 + convSum(arr, h, w, q, cells \ {k})

\* lines 49-68: irfft2(rfft2(image) * rfft2(kernel, s=image.shape)), the
\* circular convolution of an image of even width; the result is held
\* before the division by kern_sum
fft_average(arr, h, w, radius) ==
    LET kernel == ft_kernel(tophat_kernel(radius), h, w)
    IN  [q \in pixelsOf(h, w) |-> convSum(arr, h, w, q, kernel)]

\* lines 79-97: mean is held as kern_sum * mean, avg_rms as
\* kern_sum^2 * avg_rms
bane_fft(arr, h, w, radius) ==
    LET mean == fft_average(arr, h, w, radius)
        K == kern_sum(radius)
        rms == [q \in pixelsOf(h, w) |-> Abs(K * arr[q] - mean[q])]
    IN  [mean |-> mean, avg_rms |-> fft_average(rms, h, w, radius)]

\* the k-th smallest value of an array
kthSmallest(arr, k) ==
    CHOOSE v \in {arr[q] : q \in DOMAIN arr} :
        /\ Cardinality({q \in DOMAIN arr : arr[q] < v}) < k
        /\ k <= Cardinality({q \in DOMAIN arr : arr[q] <= v})

\* line 244: np.nanmedian of an array with an even number of cells, held
\* as twice the median
nanmedian2(arr) ==
    LET m == Cardinality(DOMAIN arr) \div 2
    IN  kthSmallest(arr, m) + kthSmallest(arr, m + 1)

\* lines 244-245: mask = abs(image_mask) / nanmedian(avg_rms) >= 5, where
\* x/0 is inf for x # 0 and NaN for x = 0
sourceMask(image_mask, avg_rms, radius) ==
    LET med2 == nanmedian2(avg_rms)
        K2 == kern_sum(radius) * kern_sum(radius)
    IN  { p \in DOMAIN image_mask :
            IF med2 = 0 THEN image_mask[p] # 0
            ELSE 2 * K2 * Abs(image_mask[p]) >= 5 * med2 }

RECURSIVE sumCells(_, _)
sumCells(arr, cells) ==
    IF cells = {} THEN 0
    ELSE LET c == CHOOSE x \in cells : TRUE
         IN  arr[c] + sumCells(arr, cells \ {c})

\* lines 248-250: np.random.normal(loc=0, scale=avg_rms.mean(), size=...)
\* with no seed: one draw per masked pixel, each draw 0 when the scale is 0
normal(avg_rms, mask) ==
    IF sumCells(avg_rms, DOMAIN avg_rms) = 0
    THEN [mask -> {0}]
    ELSE [mask -> {-1, 0, 1}]

\* lines 256-257: ndimage.zoom(arr, zoom, order=1): output cell i samples
\* the input at i * (in - 1) / (out - 1) along each axis, by linear
\* interpolation; the result is held times (h - 1) * (w - 1)
zoom(arr, dh, dw, h, w) ==
    [p \in pixelsOf(h, w) |->
        LET fy == (p[1] * (dh - 1)) \div (h - 1)
            ry == (p[1] * (dh - 1)) % (h - 1)
            fx == (p[2] * (dw - 1)) \div (w - 1)
            rx == (p[2] * (dw - 1)) % (w - 1)
            at(y, x) == IF y < dh /\ x < dw THEN arr[<<y, x>>] ELSE 0
        IN  ((h - 1) - ry) * ((w - 1) - rx) * at(fy, fx)
            + ((h - 1) - ry) * rx * at(fy, fx + 1)
            + ry * ((w - 1) - rx) * at(fy + 1, fx)
            + ry * rx * at(fy + 1, fx + 1)]

\* a pixel of the returned maps: both maps are NaN under the mask
mapPixel(masked, bkg, rms) ==
    [nan |-> masked, v |-> IF masked THEN 0 ELSE bkg, r |-> IF masked THEN 0 ELSE rms]

\* lines 240-261 for one outcome of the draws
rounds(img, radius, step, mask_nan, draws) ==
    LET image_mask == nan_to_num(img)
        dh == downsampled(img.h, step)
        dw == downsampled(img.w, step)
        round2 == bane_fft(downsample(
                      [p \in pixelsOf(img.h, img.w) |->
                          IF p \in DOMAIN draws THEN draws[p] ELSE image_mask[p]],
                      img.h, img.w, step), dh, dw, radius)
        mean_us == zoom(round2.mean, dh, dw, img.h, img.w)
        avg_rms_us == zoom(round2.avg_rms, dh, dw, img.h, img.w)
    IN  [p \in pixelsOf(img.h, img.w) |->
            mapPixel(p \in mask_nan, mean_us[p], avg_rms_us[p])]

\* the maps before robust_bane has returned
noMaps(h, w) == [p \in pixelsOf(h, w) |-> mapPixel(FALSE, 0, 0)]

-----------------------------------------------------------------------------
(* The state of each part of the program while another part is running *)

FloodRest ==
    /\ fdata = [p \in Pix |-> Fl(0)]
    /\ frms = [p \in Pix |-> Fl(1)]
    /\ fclip = [inner |-> DefaultInnerclip, outer |-> DefaultOuterclip]
    /\ fregion = FALSE
    /\ fsnr = [p \in Pix |-> snrOf(NaN, NaN)]
    /\ fpc = "done"
    /\ fi = 0
    /\ fout = <<>>

FitRest ==
    /\ lmfit_available = TRUE
    /\ isle = [isle_num |-> 0, nx |-> 1, ny |-> 1, npix |-> 1, summits |-> 0,
               max_summits |-> NoMaxSummits, doislandflux |-> FALSE]
    /\ params = <<>>
    /\ model = <<>>
    /\ is_flag = {}
    /\ optimised = FALSE
    /\ success = FALSE
    /\ qpc = "done"
    /\ j = 0
    /\ comp = OutputSource
    /\ sources = <<>>
    /\ isum = NoIslandSource

FindRest ==
    /\ cores = 1
    /\ twoComp = {}
    /\ nyield = 0
    /\ isle_num = 0
    /\ ids = <<>>
    /\ island_group = <<>>
    /\ inflight = {}
    /\ queue = <<>>
    /\ found = <<>>
    /\ gpc = "done"

BaneRest ==
    /\ image = [h |-> 1, w |-> 1, px |-> [p \in pixelsOf(1, 1) |-> Fl(0)]]
    /\ header = [beam |-> TRUE, ppb10 |-> 1]
    /\ nan_mask = {}
    /\ bkgrms = noMaps(1, 1)
    /\ bpc = "returned"
    /\ bcalls = 0
    /\ bfirst = noMaps(1, 1)

KernelRest ==
    /\ kargs = [header |-> [beam |-> TRUE, ppb10 |-> 1],
                step_size |-> None, box_size |-> None]
    /\ kret = [raised |-> "none", radius |-> 0, step_size |-> 1]

PriorRest ==
    /\ stage = 3
    /\ fn = "priorized_fit_source"
    /\ input_sources = <<>>
    /\ prior_k = 0
    /\ prior_out = <<>>
    /\ prior_pc = "done"

SeedRest ==
    /\ sarg = [fn |-> "none"]
    /\ sret = [pc |-> "done"]

ItergenRest ==
    /\ it_input = {}
    /\ itergen = [pc |-> "done"]

TileRest ==
    /\ tile_arg = [pc |-> "none"]
    /\ tiles = {}
    /\ bkgimg = <<>>
    /\ tpc = "done"

LookupRest == lookup = [pc |-> "done"]

LateRest == SeedRest /\ ItergenRest /\ TileRest /\ LookupRest

-----------------------------------------------------------------------------
(* gen_flood_wrap: the generator *)

FloodInit ==
    /\ \E img \in FloodImages(Pix) :
          /\ fdata = [p \in Pix |-> img[p].d]
          /\ frms = [p \in Pix |-> img[p].r]
    /\ fclip \in ClipChoices
    /\ fregion \in BOOLEAN
    /\ fsnr = [p \in Pix |-> snrOf(NaN, NaN)]
    /\ fpc = "call"
    /\ fi = 0
    /\ fout = <<>>
    /\ FitRest
    /\ FindRest
    /\ BaneRest
    /\ KernelRest
    /\ PriorRest
    /\ LateRest

\* lines 466-479: the snr image, the mask, the labels; return when n = 0
gen_flood_wrap_enter ==
    /\ fpc = "call"
    /\ LET snr == [p \in Pix |-> snrOf(fdata[p], frms[p])]
       IN  /\ fsnr' = snr
           /\ fpc' = IF Regions(aboveMask(snr, fclip.outer)) = {}
                     THEN "done" ELSE "loop"
    /\ UNCHANGED <<fdata, frms, fclip, fregion, fi, fout>>
    /\ UNCHANGED fitVars
    /\ UNCHANGED findVars
    /\ UNCHANGED <<baneVars, kernelVars, priorVars, lateVars>>

\* lines 482-498: one iteration of the loop over the labelled regions
gen_flood_wrap_step ==
    /\ fpc = "loop"
    /\ LET mask == aboveMask(fsnr, fclip.outer)
           n == Cardinality(Regions(mask))
       IN  /\ fi < n
           /\ LET R == label(mask, fi + 1)
                  f == find_objects(R)
                  xmin == f.xstart
                  xmax == f.xstop
                  ymin == f.ystart
                  ymax == f.ystop
                  box == boxPixels(xmin, xmax, ymin, ymax)
                  masked == floodMask(fdata, fsnr, box, fclip.outer)
                  yielded == [label |-> fi + 1, xmin |-> xmin, xmax |-> xmax,
                           ymin |-> ymin, ymax |-> ymax, box |-> box,
                           pixels |-> [p \in box |-> masked[p]]]
              IN  \/ /\ ~seedTest(fsnr, box, fclip.inner)
                     /\ UNCHANGED <<fdata, fout>>
                  \/ /\ seedTest(fsnr, box, fclip.inner)
                     /\ fdata' = masked
                     /\ \/ /\ fregion
                           \* sky_within finds no pixel inside the region
                           /\ UNCHANGED fout
                        \/ fout' = Append(fout, yielded)
           /\ fi' = fi + 1
    /\ UNCHANGED <<frms, fclip, fregion, fsnr, fpc>>
    /\ UNCHANGED fitVars
    /\ UNCHANGED findVars
    /\ UNCHANGED <<baneVars, kernelVars, priorVars, lateVars>>

\* the loop is exhausted: the generator returns
gen_flood_wrap_return ==
    /\ fpc = "loop"
    /\ fi >= Cardinality(Regions(aboveMask(fsnr, fclip.outer)))
    /\ fpc' = "done"
    /\ UNCHANGED <<fdata, frms, fclip, fregion, fsnr, fi, fout>>
    /\ UNCHANGED fitVars
    /\ UNCHANGED findVars
    /\ UNCHANGED <<baneVars, kernelVars, priorVars, lateVars>>

FloodNext ==
    \/ gen_flood_wrap_enter
    \/ gen_flood_wrap_step
    \/ gen_flood_wrap_return

SpecFlood == FloodInit /\ [][FloodNext]_vars

-----------------------------------------------------------------------------
(* Fitting one island: the state machine *)

FitInit ==
    /\ lmfit_available \in BOOLEAN
    /\ isle \in {i \in Islands : ValidIsland(i)}
    /\ params = <<>>
    /\ model = <<>>
    /\ is_flag = {}
    /\ optimised = FALSE
    /\ success = FALSE
    /\ qpc = "start"
    /\ j = 0
    /\ comp = OutputSource
    /\ sources = <<>>
    /\ isum = NoIslandSource
    /\ FloodRest
    /\ FindRest
    /\ BaneRest
    /\ KernelRest
    /\ PriorRest
    /\ LateRest

\* lines 2702-2743: estimate, then fit or not
fit_island_lmfit ==
    /\ qpc = "start"
    /\ lmfit_available
    /\ LET pars == estimate_lmfit_parinfo(isle)
       IN  /\ params' = pars
           /\ \/ /\ Len(pars) < 1
                 /\ qpc' = "done"
                 /\ UNCHANGED <<model, is_flag, optimised, success>>
              \/ /\ Len(pars) >= 1
                 /\ isle.npix < free_vars(pars)
                 /\ model' = pars
                 /\ is_flag' = {"NOTFIT"}
                 /\ qpc' = "report"
                 /\ UNCHANGED <<optimised, success>>
              \/ /\ Len(pars) >= 1
                 /\ ~(isle.npix < free_vars(pars))
                 /\ \E m \in do_lmfit(isle, pars), ok \in BOOLEAN :
                       /\ model' = m
                       /\ success' = ok
                       /\ is_flag' = IF ok THEN {} ELSE {"FITERR"}
                 /\ optimised' = TRUE
                 /\ qpc' = "report"
    /\ UNCHANGED <<lmfit_available, isle, j, comp, sources, isum>>
    /\ UNCHANGED floodVars
    /\ UNCHANGED findVars
    /\ UNCHANGED <<baneVars, kernelVars, priorVars, lateVars>>

\* lines 1149-1243: one turn of the loop over the components.  When a sky
\* value is not finite line 1201 reads the attribute WCSERR of the integer
\* argument "flags" and the call ends with an AttributeError.
result_to_components_step ==
    /\ qpc = "report"
    /\ j < Len(model)
    /\ \E w \in pix2sky_vec :
          LET sh == skyShape(model[j + 1], w)
          IN  IF allFinite(w.ra, w.dec, sh.a, sh.pa)
              THEN /\ comp' = component(isle, model[j + 1], j, is_flag, w)
                   /\ sources' = Append(sources, entry(comp'))
                   /\ j' = j + 1
                   /\ qpc' = qpc
              ELSE /\ qpc' = "raised"
                   /\ UNCHANGED <<comp, sources, j>>
    /\ UNCHANGED <<lmfit_available, isle, params, model, is_flag, optimised,
                   success, isum>>
    /\ UNCHANGED floodVars
    /\ UNCHANGED findVars
    /\ UNCHANGED <<baneVars, kernelVars, priorVars, lateVars>>

\* lines 1246-1322: the island summary
result_to_components_island ==
    /\ qpc = "report"
    /\ j = Len(model)
    /\ isle.doislandflux
    /\ \E r \in pix2sky :
          isum' = [present |-> TRUE, island |-> isle.isle_num,
                   components |-> j, ra |-> wrapRa(r)]
    /\ sources' = Append(sources, [island |-> isle.isle_num, source |-> -1, flags |-> {}])
    /\ qpc' = "done"
    /\ UNCHANGED <<lmfit_available, isle, params, model, is_flag, optimised,
                   success, j, comp>>
    /\ UNCHANGED floodVars
    /\ UNCHANGED findVars
    /\ UNCHANGED <<baneVars, kernelVars, priorVars, lateVars>>

\* line 1323 without an island summary
result_to_components_return ==
    /\ qpc = "report"
    /\ j = Len(model)
    /\ ~isle.doislandflux
    /\ qpc' = "done"
    /\ UNCHANGED <<lmfit_available, isle, params, model, is_flag, optimised,
                   success, j, comp, sources, isum>>
    /\ UNCHANGED floodVars
    /\ UNCHANGED findVars
    /\ UNCHANGED <<baneVars, kernelVars, priorVars, lateVars>>

\* lines 2458-2526 of fit_island_mpfit: estimate, then fit or not
fit_island_mpfit ==
    /\ qpc = "start"
    /\ ~lmfit_available
    /\ LET parinfo == estimate_mpfit_parinfo(isle)
           small == \E c \in 1 .. Len(parinfo) : "FITERRSMALL" \in parinfo[c].flags
       IN  /\ params' = parinfo
           /\ \/ /\ Len(parinfo) < 1
                 /\ qpc' = "done"
                 /\ UNCHANGED <<model, is_flag, optimised, success>>
              \/ /\ Len(parinfo) >= 1
                 /\ small
                 /\ model' = parinfo
                 /\ is_flag' = {"FITERRSMALL", "NOTFIT", "FIXED2PSF"}
                 /\ qpc' = "mpreport"
                 /\ UNCHANGED <<optimised, success>>
              \/ /\ Len(parinfo) >= 1
                 /\ ~small
                 /\ \E m \in do_mpfit(isle, parinfo), ok \in BOOLEAN :
                       /\ model' = m
                       /\ success' = ok
                       /\ is_flag' = IF ok THEN {} ELSE {"FIXED2PSF"}
                 /\ optimised' = TRUE
                 /\ qpc' = "mpreport"
    /\ UNCHANGED <<lmfit_available, isle, j, comp, sources, isum>>
    /\ UNCHANGED floodVars
    /\ UNCHANGED findVars
    /\ UNCHANGED <<baneVars, kernelVars, priorVars, lateVars>>

\* lines 2529-2596: one turn of the loop over the fitted components
fit_island_mpfit_step ==
    /\ qpc = "mpreport"
    /\ j < Len(model)
    /\ \E w \in pix2sky_vec :
          \E blen \in minorLengths(w) :
             /\ comp' = componentMp(isle, model[j + 1], j, is_flag, w, blen)
             /\ sources' = Append(sources, entry(comp'))
    /\ j' = j + 1
    /\ UNCHANGED <<lmfit_available, isle, params, model, is_flag, optimised,
                   success, qpc, isum>>
    /\ UNCHANGED floodVars
    /\ UNCHANGED findVars
    /\ UNCHANGED <<baneVars, kernelVars, priorVars, lateVars>>

\* lines 2600-2675: the island summary, and the return
fit_island_mpfit_island ==
    /\ qpc = "mpreport"
    /\ j = Len(model)
    /\ isle.doislandflux
    /\ \E r \in pix2sky :
          isum' = [present |-> TRUE, island |-> isle.isle_num,
                   components |-> j, ra |-> wrapRa(r)]
    /\ sources' = Append(sources, [island |-> isle.isle_num, source |-> -1, flags |-> {}])
    /\ qpc' = "done"
    /\ UNCHANGED <<lmfit_available, isle, params, model, is_flag, optimised,
                   success, j, comp>>
    /\ UNCHANGED floodVars
    /\ UNCHANGED findVars
    /\ UNCHANGED <<baneVars, kernelVars, priorVars, lateVars>>

fit_island_mpfit_return ==
    /\ qpc = "mpreport"
    /\ j = Len(model)
    /\ ~isle.doislandflux
    /\ qpc' = "done"
    /\ UNCHANGED <<lmfit_available, isle, params, model, is_flag, optimised,
                   success, j, comp, sources, isum>>
    /\ UNCHANGED floodVars
    /\ UNCHANGED findVars
    /\ UNCHANGED <<baneVars, kernelVars, priorVars, lateVars>>

FitNext ==
    \/ fit_island_lmfit
    \/ result_to_components_step
    \/ result_to_components_island
    \/ result_to_components_return
    \/ fit_island_mpfit
    \/ fit_island_mpfit_step
    \/ fit_island_mpfit_island
    \/ fit_island_mpfit_return

SpecFit == FitInit /\ [][FitNext]_vars

-----------------------------------------------------------------------------
(* find_sources_in_image: the state machine *)

FindInit ==
    /\ cores \in 1 .. MaxCores
    /\ twoComp \in TwoCompChoices
    /\ nyield = 0
    /\ isle_num = 0
    /\ ids = <<>>
    /\ island_group = <<>>
    /\ inflight = {}
    /\ queue = <<>>
    /\ found = <<>>
    /\ gpc = "loop"
    /\ FloodRest
    /\ FitRest
    /\ BaneRest
    /\ KernelRest
    /\ PriorRest
    /\ LateRest

\* lines 2857-2860: the generator yields an array of a single row, which
\* the loop passes over
find_sources_skip ==
    /\ gpc = "loop"
    /\ nyield < MaxYield
    /\ nyield - isle_num < MaxSkip
    /\ nyield' = nyield + 1
    /\ isle_num' = next_isle_num(isle_num, FALSE)
    /\ ids' = Append(ids, 0)
    /\ UNCHANGED <<cores, twoComp, island_group, inflight, queue, found, gpc>>
    /\ UNCHANGED <<floodVars, fitVars, baneVars, kernelVars, priorVars, lateVars>>

\* lines 2857-2879: the generator yields an island that is kept.  With one
\* core it is fitted at once; otherwise it joins the group, and a full
\* group is handed to a worker, the call waiting while every worker is busy.
find_sources_island ==
    /\ gpc = "loop"
    /\ nyield < MaxYield
    /\ nyield' = nyield + 1
    /\ isle_num' = next_isle_num(isle_num, TRUE)
    /\ ids' = Append(ids, isle_num')
    /\ IF cores = 1
       THEN /\ queue' = Append(queue, fit_island(isle_num', twoComp))
            /\ UNCHANGED <<island_group, inflight>>
       ELSE LET group == Append(island_group, isle_num')
            IN  IF Len(group) >= group_size
                THEN /\ Cardinality(inflight) < cores
                     /\ inflight' = inflight \cup {group}
                     /\ island_group' = <<>>
                     /\ UNCHANGED queue
                ELSE /\ island_group' = group
                     /\ UNCHANGED <<inflight, queue>>
    /\ UNCHANGED <<cores, twoComp, found, gpc>>
    /\ UNCHANGED <<floodVars, fitVars, baneVars, kernelVars, priorVars, lateVars>>

\* a worker finishes its group: fit_islands returns and the queue stores
\* the result
worker_done ==
    /\ \E group \in inflight :
          /\ inflight' = inflight \ {group}
          /\ queue' = Append(queue, fit_islands(group, twoComp))
    /\ UNCHANGED <<cores, twoComp, nyield, isle_num, ids, island_group, found, gpc>>
    /\ UNCHANGED <<floodVars, fitVars, baneVars, kernelVars, priorVars, lateVars>>

\* a variant of line 2882 that queues a full group only
last_group_queued_full(group) == Len(group) >= group_size

\* line 2882: "if len(island_group) > 0"
last_group_queued(group) == Len(group) > 0

\* lines 2881-2883: the generator is exhausted; the last group is submitted
find_sources_last_group ==
    /\ gpc = "loop"
    /\ IF last_group_queued(island_group)
       THEN /\ Cardinality(inflight) < cores
            /\ inflight' = inflight \cup {island_group}
            /\ island_group' = <<>>
       ELSE UNCHANGED <<inflight, island_group>>
    /\ gpc' = "collect"
    /\ UNCHANGED <<cores, twoComp, nyield, isle_num, ids, queue, found>>
    /\ UNCHANGED <<floodVars, fitVars, baneVars, kernelVars, priorVars, lateVars>>

\* lines 2885-2901: the queue is read until every worker has finished, and
\* the list is returned
find_sources_return ==
    /\ gpc = "collect"
    /\ inflight = {}
    /\ found' = collect(queue)
    /\ gpc' = "done"
    /\ UNCHANGED <<cores, twoComp, nyield, isle_num, ids, island_group, inflight, queue>>
    /\ UNCHANGED <<floodVars, fitVars, baneVars, kernelVars, priorVars, lateVars>>

FindNext ==
    \/ find_sources_skip
    \/ find_sources_island
    \/ worker_done
    \/ find_sources_last_group
    \/ find_sources_return

SpecFind == FindInit /\ [][FindNext]_vars

-----------------------------------------------------------------------------
(* find_sources_in_image over the islands gen_flood_wrap yields: the loop   *)
(* of lines 2857-2872 with one core, driven by the generator                *)

SegmentInit ==
    /\ \E img \in FloodImages(Pix) :
          /\ fdata = [p \in Pix |-> img[p].d]
          /\ frms = [p \in Pix |-> img[p].r]
    /\ fclip \in ClipChoices
    /\ fregion \in BOOLEAN
    /\ fsnr = [p \in Pix |-> snrOf(NaN, NaN)]
    /\ fpc = "call"
    /\ fi = 0
    /\ fout = <<>>
    /\ cores = 1
    /\ twoComp = {}
    /\ nyield = 0
    /\ isle_num = 0
    /\ ids = <<>>
    /\ island_group = <<>>
    /\ inflight = {}
    /\ queue = <<>>
    /\ found = <<>>
    /\ gpc = "loop"
    /\ FitRest
    /\ BaneRest
    /\ KernelRest
    /\ PriorRest
    /\ LateRest

\* len(i): the number of rows of the array the generator yielded
len(yielded) == Cardinality({p[1] : p \in yielded.box})

\* lines 2857-2872: the loop body for the next island of the generator
find_sources_take ==
    /\ gpc = "loop"
    /\ nyield < Len(fout)
    /\ LET i == fout[nyield + 1]
           kept == ~(len(i) <= 1)
       IN  /\ nyield' = nyield + 1
           /\ isle_num' = next_isle_num(isle_num, kept)
           /\ ids' = Append(ids, IF kept THEN isle_num' ELSE 0)
           /\ queue' = IF kept THEN Append(queue, fit_island(isle_num', twoComp))
                       ELSE queue
    /\ UNCHANGED <<cores, twoComp, island_group, inflight, found, gpc>>
    /\ UNCHANGED <<floodVars, fitVars, baneVars, kernelVars, priorVars, lateVars>>

\* lines 2885-2901: the generator has returned and every island was taken
find_sources_exhausted ==
    /\ gpc = "loop"
    /\ fpc = "done"
    /\ nyield = Len(fout)
    /\ found' = collect(queue)
    /\ gpc' = "done"
    /\ UNCHANGED <<cores, twoComp, nyield, isle_num, ids, island_group, inflight, queue>>
    /\ UNCHANGED <<floodVars, fitVars, baneVars, kernelVars, priorVars, lateVars>>

SegmentNext ==
    \/ gen_flood_wrap_enter
    \/ gen_flood_wrap_step
    \/ gen_flood_wrap_return
    \/ find_sources_take
    \/ find_sources_exhausted

SpecSegment == SegmentInit /\ [][SegmentNext]_vars

-----------------------------------------------------------------------------
(* robust_bane: the state machine *)

BaneInit ==
    /\ image \in Images(MaxH, MaxW)
    /\ header \in Headers
    /\ nan_mask = {}
    /\ bkgrms = noMaps(image.h, image.w)
    /\ bpc = "call"
    /\ bcalls = 0
    /\ bfirst = noMaps(image.h, image.w)
    /\ FloodRest
    /\ FitRest
    /\ FindRest
    /\ KernelRest
    /\ PriorRest
    /\ LateRest

\* lines 212-238: the kernel, the NaN mask, the downsampled image and the
\* assertion on its shape.  irfft2 returns 2 * (w div 2) columns, so the
\* mask of an image with an odd number of columns has the wrong shape
\* (and no column at all when w = 1, which numpy refuses).
robust_bane_setup ==
    /\ bpc = "call"
    /\ LET k == get_kernel(header, None, None)
       IN  IF k.raised # "none"
           THEN /\ bpc' = k.raised
                /\ UNCHANGED nan_mask
           ELSE IF image.w = 1
                THEN /\ bpc' = "ValueError"
                     /\ UNCHANGED nan_mask
                ELSE /\ nan_mask' = get_nan_mask(image, k.radius)
                     /\ bpc' = IF /\ downsampled(image.w, k.step_size) % 2 = 0
                                  /\ downsampled(image.h, k.step_size) % 2 = 0
                               THEN "rounds"
                               ELSE "AssertionError"
    /\ UNCHANGED <<image, header, bkgrms, bcalls, bfirst>>
    /\ UNCHANGED <<floodVars, fitVars, findVars, kernelVars, priorVars, lateVars>>

\* lines 240-267: round 1, the sources replaced by draws of
\* np.random.normal, round 2, the maps brought back to the shape of the
\* image, and the mask written over them
robust_bane_return ==
    /\ bpc = "rounds"
    /\ IF image.w % 2 = 1
       THEN /\ bpc' = "IndexError"
            /\ UNCHANGED <<bkgrms, bcalls>>
       ELSE LET k == get_kernel(header, None, None)
                dh == downsampled(image.h, k.step_size)
                dw == downsampled(image.w, k.step_size)
                image_ds == downsample(nan_to_num(image), image.h, image.w, k.step_size)
                round1 == bane_fft(image_ds, dh, dw, k.radius)
                mask == sourceMask(nan_to_num(image), round1.avg_rms, k.radius)
            IN  /\ \E draws \in normal(round1.avg_rms, mask) :
                      bkgrms' = rounds(image, k.radius, k.step_size, nan_mask, draws)
                /\ bcalls' = bcalls + 1
                /\ bpc' = "returned"
    /\ UNCHANGED <<image, header, nan_mask, bfirst>>
    /\ UNCHANGED <<floodVars, fitVars, findVars, kernelVars, priorVars, lateVars>>

\* robust_bane is called again on the same image and header
robust_bane_again ==
    /\ bpc = "returned"
    /\ bcalls = 1
    /\ bfirst' = bkgrms
    /\ bkgrms' = noMaps(image.h, image.w)
    /\ nan_mask' = {}
    /\ bpc' = "call"
    /\ UNCHANGED <<image, header, bcalls>>
    /\ UNCHANGED <<floodVars, fitVars, findVars, kernelVars, priorVars, lateVars>>

BaneNext ==
    \/ robust_bane_setup
    \/ robust_bane_return
    \/ robust_bane_again

SpecBane == BaneInit /\ [][BaneNext]_vars

-----------------------------------------------------------------------------
(* Priorized fitting: priorized_fit_source and priorized_fit_island *)

\* the catalog holds at most MaxRows rows, and the stage is 1 .. MaxStage
MaxRows == 3
MaxStage == 5

\* the island and source numbers of the catalog rows
IslandNumbers == {1, 2}

SourceNumbers == {0, 1}

\* a catalog row: its numbers, and whether its position falls on a pixel
\* of the image with finite data and rms (lines 2951-2956)
CatalogRows ==
    [island : IslandNumbers, source : SourceNumbers, usable : BOOLEAN]

rowBefore(r, q) ==
    r.island < q.island \/ (r.island = q.island /\ r.source < q.source)

\* sorted(table_to_source_list(input_table)), lines 2928-2929
RECURSIVE sorted(_)
sorted(rows) ==
    IF rows = {} THEN <<>>
    ELSE LET first == CHOOSE r \in rows : \A q \in rows \ {r} : rowBefore(r, q)
         IN  <<first>> \o sorted(rows \ {first})

\* the catalogs: up to MaxRows rows, no two with the same island and source
\* numbers
Catalogs ==
    { sorted(rows) : rows \in
        { R \in SUBSET CatalogRows :
            /\ Cardinality(R) <= MaxRows
            /\ \A r, q \in R : (r.island = q.island /\ r.source = q.source) => r = q } }

\* a stage-1 variant of the seeds that also frees the position
priorVary_position(st) ==
    [amp |-> TRUE, xo |-> TRUE, yo |-> TRUE,
     sx |-> st >= 3, sy |-> st >= 3, theta |-> st >= 3]

\* lines 2992-2997 and 3100-3107: the vary argument of each params.add
priorVary(st) ==
    [amp |-> TRUE, xo |-> st >= 2, yo |-> st >= 2,
     sx |-> st >= 3, sy |-> st >= 3, theta |-> st >= 3]

\* a component of the output: its numbers, the catalog row it was fitted
\* from and the vary flags of its parameters in the model
priorComponent(island, source, row, vary) ==
    [island |-> island, source |-> source, row |-> row, vary |-> vary]

\* island_itergen (lines 3175-3208): the rows after the first k that carry
\* the island number of row k + 1
islandGroup(cat, k) ==
    { n \in (k + 1) .. Len(cat) : cat[n].island = cat[k + 1].island }

\* lines 1149-1153 for a model of the rows of an island: component j of
\* the model gets island island_data.isle_num and source j
prior_result_to_components(island, k, components, vary) ==
    [c \in 1 .. components |-> priorComponent(island, c - 1, k + c, vary)]

PriorInit ==
    /\ stage \in 1 .. MaxStage
    /\ fn \in {"priorized_fit_source", "priorized_fit_island"}
    /\ input_sources \in Catalogs
    /\ prior_k = 0
    /\ prior_out = <<>>
    /\ prior_pc = "loop"
    /\ FloodRest
    /\ FitRest
    /\ FindRest
    /\ BaneRest
    /\ KernelRest
    /\ LateRest

\* lines 2937-3011: one catalog row.  A row outside the usable region is
\* skipped; result_to_components raises on a sky value that is not finite
\* (flags is the integer src.flags, which has no WCSERR attribute).
priorized_fit_source_step ==
    /\ prior_pc = "loop"
    /\ fn = "priorized_fit_source"
    /\ prior_k < Len(input_sources)
    /\ LET src == input_sources[prior_k + 1]
           new_src == prior_result_to_components(src.island, prior_k, 1,
                                                 priorVary(stage))[1]
       IN  IF ~src.usable
           THEN UNCHANGED <<prior_out, prior_pc>>
           ELSE \/ /\ prior_out' = Append(prior_out,
                                          [new_src EXCEPT !.source = src.source])
                   /\ UNCHANGED prior_pc
                \/ /\ prior_pc' = "AttributeError"
                   /\ UNCHANGED prior_out
    /\ prior_k' = prior_k + 1
    /\ UNCHANGED <<stage, fn, input_sources>>
    /\ UNCHANGED <<floodVars, fitVars, findVars, baneVars, kernelVars, lateVars>>

\* lines 3045-3143: one island of the catalog.  The loop that shifts xo and
\* yo runs over range(len(isle)), so it asks for a parameter that was never
\* added as soon as one row of the island was skipped.
priorized_fit_island_step ==
    /\ prior_pc = "loop"
    /\ fn = "priorized_fit_island"
    /\ prior_k < Len(input_sources)
    /\ LET isle_rows == islandGroup(input_sources, prior_k)
           components == Cardinality(isle_rows)
           src == input_sources[prior_k + components]
       IN  /\ IF \E n \in isle_rows : ~input_sources[n].usable
              THEN /\ prior_pc' = "KeyError"
                   /\ UNCHANGED prior_out
              ELSE \/ /\ prior_out' = prior_out \o
                             prior_result_to_components(src.island, prior_k,
                                 components, priorVary(stage))
                      /\ UNCHANGED prior_pc
                   \/ /\ prior_pc' = "AttributeError"
                      /\ UNCHANGED prior_out
           /\ prior_k' = prior_k + components
    /\ UNCHANGED <<stage, fn, input_sources>>
    /\ UNCHANGED <<floodVars, fitVars, findVars, baneVars, kernelVars, lateVars>>

\* lines 3005-3013 and 3136-3143: the catalog is exhausted; the sources are
\* sorted, written and returned
priorized_fit_return ==
    /\ prior_pc = "loop"
    /\ prior_k = Len(input_sources)
    /\ prior_out' = sorted({prior_out[n] : n \in 1 .. Len(prior_out)})
    /\ prior_pc' = "done"
    /\ UNCHANGED <<stage, fn, input_sources, prior_k>>
    /\ UNCHANGED <<floodVars, fitVars, findVars, baneVars, kernelVars, lateVars>>

PriorNext ==
    \/ priorized_fit_source_step
    \/ priorized_fit_island_step
    \/ priorized_fit_return

SpecPrior == PriorInit /\ [][PriorNext]_vars

-----------------------------------------------------------------------------
(* get_kernel called with every combination of its arguments *)

\* step_size and box_size: None, pixels (positive), per beam (negative)
SizeArgs == {None, 1, 2, 4, -1, -3, -10}

KernelInit ==
    /\ kargs \in [header : Headers, step_size : SizeArgs, box_size : SizeArgs]
    /\ kret = [raised |-> "pending", radius |-> 0, step_size |-> 0]
    /\ FloodRest
    /\ FitRest
    /\ FindRest
    /\ BaneRest
    /\ PriorRest
    /\ LateRest

get_kernel_call ==
    /\ kret.raised = "pending"
    /\ kret' = get_kernel(kargs.header, kargs.step_size, kargs.box_size)
    /\ UNCHANGED kargs
    /\ UNCHANGED <<floodVars, fitVars, findVars, baneVars, priorVars, lateVars>>

KernelNext == get_kernel_call

SpecKernel == KernelInit /\ [][KernelNext]_vars

-----------------------------------------------------------------------------
(* result_to_components: the background and local rms of a component       *)
(* (lines 1139-1180; fit_island_mpfit has the same lines, 2548-2559)       *)

MaxSlice == 3

\* Python 2 round() of a value held in half units: a half rounds away
\* from zero
round2(v2) ==
    IF v2 % 2 = 0 THEN v2 \div 2
    ELSE IF v2 > 0 THEN (v2 + 1) \div 2 ELSE (v2 - 1) \div 2

\* lines 1169-1170 and 1177-1178: x_pix = xo + xmin + 1, then
\* max(min(int(round(x_pix - xmin)), bkg.shape[0] - 1), 0); xo2 is the
\* fitted position in half pixels, n the length of the axis
background_index(xo2, n) == Max2(Min2(round2(xo2 + 2), n - 1), 0)

\* the slices of the maps (both axes at least one pixel long) and the fitted
\* positions, from one pixel before the slice to one pixel after it
LookupInit ==
    /\ lookup \in [nx : 1 .. MaxSlice, ny : 1 .. MaxSlice,
                   xo : (-2) .. (2 * MaxSlice), yo : (-2) .. (2 * MaxSlice),
                   x : {-1}, y : {-1}, pc : {"call"}]
    /\ FloodRest
    /\ FitRest
    /\ FindRest
    /\ BaneRest
    /\ KernelRest
    /\ PriorRest
    /\ SeedRest
    /\ ItergenRest
    /\ TileRest

\* lines 1177-1180: source.background = bkg[x, y], local_rms = rms[x, y]
result_to_components_background ==
    /\ lookup.pc = "call"
    /\ lookup' = [lookup EXCEPT !.x = background_index(lookup.xo, lookup.nx),
                                !.y = background_index(lookup.yo, lookup.ny),
                                !.pc = "done"]
    /\ UNCHANGED <<floodVars, fitVars, findVars, baneVars, kernelVars, priorVars>>
    /\ UNCHANGED <<seedVars, itergenVars, tileVars>>

LookupNext == result_to_components_background

SpecLookup == LookupInit /\ [][LookupNext]_vars

-----------------------------------------------------------------------------

(* island_itergen (lines 3175-3208): the generator, one action per turn of *)
(* its while loop                                                          *)

MaxCatalog == 3

\* the island ids of a catalog: integers, with a gap
ItergenIslands == {1, 2, 4}

\* the catalogs handed to island_itergen: not empty, one row per
\* (island, source)
ItergenCatalogs ==
    { R \in SUBSET [island : ItergenIslands, source : SourceNumbers] :
        R # {} /\ Cardinality(R) <= MaxCatalog }

\* a variant of line 3204 that never skips
skip_empty_never(group) == FALSE

\* lines 3204-3205: "if group == []: continue"
skip_empty(group) == group = <<>>

\* catalog.reverse()
RECURSIVE reverse(_)
reverse(s) == IF s = <<>> THEN <<>> ELSE Append(reverse(Tail(s)), Head(s))

\* catalog.pop(): the last element, and the list without it
pop(s) == [value |-> s[Len(s)], rest |-> SubSeq(s, 1, Len(s) - 1)]

ItergenInit ==
    /\ it_input \in ItergenCatalogs
    /\ itergen = [pc |-> "start"]
    /\ FloodRest
    /\ FitRest
    /\ FindRest
    /\ BaneRest
    /\ KernelRest
    /\ PriorRest
    /\ SeedRest
    /\ TileRest
    /\ LookupRest

\* lines 3182-3190: sort, reverse, pop the first source
island_itergen_enter ==
    /\ itergen.pc = "start"
    /\ LET catalog == reverse(sorted(it_input))
           first == pop(catalog)
       IN  itergen' = [pc |-> "loop", catalog |-> first.rest, src |-> first.value,
                       c_len |-> Len(first.rest), isle_num |-> first.value.island,
                       group |-> <<>>, yielded |-> <<>>]
    /\ UNCHANGED it_input
    /\ UNCHANGED <<floodVars, fitVars, findVars, baneVars, kernelVars, priorVars>>
    /\ UNCHANGED <<seedVars, tileVars, lookupVars>>

\* lines 3192-3200: the source belongs to the current island
island_itergen_append ==
    /\ itergen.pc = "loop"
    /\ itergen.c_len >= 0
    /\ itergen.src.island = itergen.isle_num
    /\ LET group == Append(itergen.group, itergen.src)
           c_len == itergen.c_len - 1
       IN  IF c_len < 0
           THEN itergen' = [itergen EXCEPT !.group = group, !.c_len = c_len,
                               !.yielded = Append(itergen.yielded, group)]
           ELSE itergen' = [itergen EXCEPT !.group = group, !.c_len = c_len,
                               !.src = pop(itergen.catalog).value,
                               !.catalog = pop(itergen.catalog).rest]
    /\ UNCHANGED it_input
    /\ UNCHANGED <<floodVars, fitVars, findVars, baneVars, kernelVars, priorVars>>
    /\ UNCHANGED <<seedVars, tileVars, lookupVars>>

\* lines 3201-3207: the source belongs to a later island
island_itergen_next ==
    /\ itergen.pc = "loop"
    /\ itergen.c_len >= 0
    /\ itergen.src.island # itergen.isle_num
    /\ IF skip_empty(itergen.group)
       THEN itergen' = [itergen EXCEPT !.isle_num = itergen.isle_num + 1]
       ELSE itergen' = [itergen EXCEPT !.isle_num = itergen.isle_num + 1,
                           !.yielded = Append(itergen.yielded, itergen.group),
                           !.group = <<>>]
    /\ UNCHANGED it_input
    /\ UNCHANGED <<floodVars, fitVars, findVars, baneVars, kernelVars, priorVars>>
    /\ UNCHANGED <<seedVars, tileVars, lookupVars>>

\* lines 3191 and 3208: the loop condition fails and the generator returns
island_itergen_return ==
    /\ itergen.pc = "loop"
    /\ itergen.c_len < 0
    /\ itergen' = [itergen EXCEPT !.pc = "done"]
    /\ UNCHANGED it_input
    /\ UNCHANGED <<floodVars, fitVars, findVars, baneVars, kernelVars, priorVars>>
    /\ UNCHANGED <<seedVars, tileVars, lookupVars>>

ItergenNext ==
    \/ island_itergen_enter
    \/ island_itergen_append
    \/ island_itergen_next
    \/ island_itergen_return

SpecItergen == ItergenInit /\ [][ItergenNext]_vars

\* the consumer keeps asking the generator for the next group
SpecItergenLive == SpecItergen /\ WF_vars(ItergenNext)

-----------------------------------------------------------------------------

(* make_bkg_rms_from_global (lines 1988-2089) and                          *)
(* estimate_background_global (lines 2092-2115).  Axis x is axis 0 of the  *)
(* image (img_x = data.shape[0]).  The RMS is held as the inter-quartile   *)
(* range, the division by 1.34896 left out.                                *)

MaxTile == 3
MaxWidth == 3
MaxTileCores == 2

\* global_data.data_pix: a ramp, every pixel finite and different
data_pix(arg, p) == p[1] * arg.img_y + p[2]

\* range(a, b, step) as a sequence
range(a, b, step) ==
    [n \in 1 .. (IF b > a THEN (b - a + step - 1) \div step ELSE 0) |->
        a + (n - 1) * step]

\* lines 2036-2064 for one axis of length img and mesh width width: the
\* (min, max) pairs that zip(xmins, xmaxs) gives
axis_tiles(img, width) ==
    LET cen == img \div 2
        start == (cen - width \div 2) % width
        end == img - ((img - start) % width)
        mins == <<0>> \o range(start, end, width) \o <<end>>
        maxs == <<start>> \o range(start + width, end + 1, width) \o <<img>>
    IN  IF width >= img
        THEN << <<0, img>> >>
        ELSE [n \in 1 .. Min2(Len(mins), Len(maxs)) |-> <<mins[n], maxs[n]>>]

\* the k-th smallest (from 0) of a set of different values
kth(S, k) == CHOOSE v \in S : Cardinality({u \in S : u < v}) = k

\* estimate_background_global(xmin, xmax, ymin, ymax), lines 2092-2115: the
\* estimate is made on data_pix[ymin:ymax, xmin:xmax] and returned behind
\* (ymin, ymax, xmin, xmax)
estimate_background_global(arg, xmin, xmax, ymin, ymax) ==
    LET region == { p \in pixelsOf(arg.img_x, arg.img_y) :
                      /\ ymin <= p[1] /\ p[1] < ymax
                      /\ xmin <= p[2] /\ p[2] < xmax }
        pixels == { data_pix(arg, p) : p \in region }
        size == Cardinality(pixels)
    IN  IF size < 4
        THEN <<ymin, ymax, xmin, xmax, NaN, NaN>>
        ELSE <<ymin, ymax, xmin, xmax, Fl(kth(pixels, size \div 2)),
               Fl(kth(pixels, (size \div 4) * 3) - kth(pixels, size \div 4))>>

\* lines 2066-2078: the calls in the order of the two loops; with
\* cores > 1 the call is estimate(ymin, ymax, xmin, xmax), with one core
\* estimate_background_global(xmin, xmax, ymin, ymax)
tile_queue(arg) ==
    LET xs == axis_tiles(arg.img_x, arg.width_x)
        ys == axis_tiles(arg.img_y, arg.width_y)
    IN  [n \in 1 .. Len(xs) * Len(ys) |->
            LET x == xs[((n - 1) \div Len(ys)) + 1]
                y == ys[((n - 1) % Len(ys)) + 1]
            IN  IF arg.cores > 1
                THEN estimate_background_global(arg, y[1], y[2], x[1], x[2])
                ELSE estimate_background_global(arg, x[1], x[2], y[1], y[2])]

\* lines 2081-2084: np.zeros(data.shape) for both maps; n counts the
\* writes a pixel gets
zero_maps(arg) ==
    [p \in pixelsOf(arg.img_x, arg.img_y) |-> [n |-> 0, bkg |-> Fl(0), rms |-> Fl(0)]]

\* lines 2086-2088: "for ymin, ymax, xmin, xmax, bkg, rms in queue:
\* bkgimg[ymin:ymax, xmin:xmax] = bkg" for one element of the queue
write_tile(maps, t) ==
    [p \in DOMAIN maps |->
        IF t[1] <= p[1] /\ p[1] < t[2] /\ t[3] <= p[2] /\ p[2] < t[4]
        THEN [n |-> maps[p].n + 1, bkg |-> t[5], rms |-> t[6]]
        ELSE maps[p]]

\* the maps after the elements k .. of a queue have been written in order
RECURSIVE write_queue(_, _, _)
write_queue(maps, q, k) ==
    IF k > Len(q) THEN maps
    ELSE write_queue(write_tile(maps, q[k]), q, k + 1)

TileInit ==
    /\ tile_arg \in [img_x : 1 .. MaxTile, img_y : 1 .. MaxTile,
                     width_x : 1 .. MaxWidth, width_y : 1 .. MaxWidth,
                     cores : 1 .. MaxTileCores]
    /\ tiles = [queue |-> <<>>, submitted |-> 0, inflight |-> {}, written |-> 0]
    /\ bkgimg = zero_maps(tile_arg)
    /\ tpc = "call"
    /\ FloodRest
    /\ FitRest
    /\ FindRest
    /\ BaneRest
    /\ KernelRest
    /\ PriorRest
    /\ SeedRest
    /\ ItergenRest
    /\ LookupRest

\* lines 2011-2064: the tiles are laid out
make_bkg_rms_from_global ==
    /\ tpc = "call"
    /\ tiles' = [tiles EXCEPT !.queue = tile_queue(tile_arg)]
    /\ tpc' = IF tile_arg.cores > 1 THEN "parallel" ELSE "serial"
    /\ UNCHANGED <<tile_arg, bkgimg>>
    /\ UNCHANGED <<floodVars, fitVars, findVars, baneVars, kernelVars, priorVars>>
    /\ UNCHANGED <<seedVars, itergenVars, lookupVars>>

\* lines 2075-2078 and 2086-2088 with one core: the queue is a list, written
\* in order
write_serial ==
    /\ tpc = "serial"
    /\ tiles.written < Len(tiles.queue)
    /\ bkgimg' = write_tile(bkgimg, tiles.queue[tiles.written + 1])
    /\ tiles' = [tiles EXCEPT !.written = tiles.written + 1]
    /\ UNCHANGED <<tile_arg, tpc>>
    /\ UNCHANGED <<floodVars, fitVars, findVars, baneVars, kernelVars, priorVars>>
    /\ UNCHANGED <<seedVars, itergenVars, lookupVars>>

\* lines 2066-2073: pprocess.Queue(limit=cores) starts the next estimate
\* when fewer than cores are running
estimate_submit ==
    /\ tpc = "parallel"
    /\ tiles.submitted < Len(tiles.queue)
    /\ Cardinality(tiles.inflight) < tile_arg.cores
    /\ tiles' = [tiles EXCEPT !.submitted = tiles.submitted + 1,
                              !.inflight = tiles.inflight \cup {tiles.submitted + 1}]
    /\ UNCHANGED <<tile_arg, bkgimg, tpc>>
    /\ UNCHANGED <<floodVars, fitVars, findVars, baneVars, kernelVars, priorVars>>
    /\ UNCHANGED <<seedVars, itergenVars, lookupVars>>

\* lines 2086-2088 with cores > 1: the queue gives the estimates in the
\* order in which they finish
write_parallel ==
    /\ tpc = "parallel"
    /\ \E n \in tiles.inflight :
          /\ bkgimg' = write_tile(bkgimg, tiles.queue[n])
          /\ tiles' = [tiles EXCEPT !.inflight = tiles.inflight \ {n},
                                    !.written = tiles.written + 1]
    /\ UNCHANGED <<tile_arg, tpc>>
    /\ UNCHANGED <<floodVars, fitVars, findVars, baneVars, kernelVars, priorVars>>
    /\ UNCHANGED <<seedVars, itergenVars, lookupVars>>

\* line 2089
make_bkg_rms_return ==
    /\ tpc \in {"serial", "parallel"}
    /\ tiles.written = Len(tiles.queue)
    /\ tpc' = "done"
    /\ UNCHANGED <<tile_arg, tiles, bkgimg>>
    /\ UNCHANGED <<floodVars, fitVars, findVars, baneVars, kernelVars, priorVars>>
    /\ UNCHANGED <<seedVars, itergenVars, lookupVars>>

TileNext ==
    \/ make_bkg_rms_from_global
    \/ write_serial
    \/ estimate_submit
    \/ write_parallel
    \/ make_bkg_rms_return

SpecTile == TileInit /\ [][TileNext]_vars

-----------------------------------------------------------------------------

(* estimate_lmfit_parinfo on the pixels of an island (lines 713-912), and  *)
(* the seeds of priorized_fit_source (lines 2936-2998).  Fluxes are held   *)
(* in hundredths of a data unit, positions in thousandths of a pixel,      *)
(* widths as in seedSx.                                                    *)

MaxSeedSide == 3
MaxSpecial == 3

\* rmsimg: the same finite positive value at every pixel of the island
SeedRms == 2

\* 0.5 * hypot(pixbeam.a, pixbeam.b) = 0.7071 pixels
xo_lim == 707

\* the pixels that differ from the body of an island of sign s: curvature
\* peaks of snr 4.5, 6 and 10, a brighter pixel of the other sign, a masked
\* pixel
SpecialPixels(s) ==
    { [d |-> Fl(s * 9), curve |-> -s], [d |-> Fl(s * 12), curve |-> -s],
      [d |-> Fl(s * 20), curve |-> -s], [d |-> Fl(-s * 24), curve |-> 0],
      [d |-> NaN, curve |-> 0] }

\* the body of an island: a pixel at the flood clip, not a curvature peak
BodyPixel(s) == [d |-> Fl(s * DefaultOuterclip * SeedRms), curve |-> 0]

\* an island of a shape and a sign: the pixels of L are special, as sp says
islandOf(nx, ny, s, L, sp) ==
    [nx |-> nx, ny |-> ny,
     data |-> [p \in pixelsOf(nx, ny) |->
                 IF p \in L THEN sp[p].d ELSE BodyPixel(s).d],
     curve |-> [p \in pixelsOf(nx, ny) |->
                 IF p \in L THEN sp[p].curve ELSE BodyPixel(s).curve]]

\* an island gen_flood_wrap can yield holds a pixel above innerclip
seededIsland(isl) ==
    \E p \in DOMAIN isl.data :
        isfinite(isl.data[p]) /\ Abs(isl.data[p].v) > DefaultInnerclip * SeedRms

finiteValues(arr) == { arr[p].v : p \in { q \in DOMAIN arr : isfinite(arr[q]) } }

maxOf(S) == CHOOSE v \in S : \A u \in S : u <= v

minOf(S) == CHOOSE v \in S : \A u \in S : v <= u

\* line 732: max(data[np.where(np.isfinite(data))]) < 0
isnegative(data) == maxOf(finiteValues(data)) < 0

\* lines 783-787: the pixels the summits are searched in
kappa_sigma(isl) ==
    [p \in DOMAIN isl.data |->
        LET d == isl.data[p]
        IN  IF isnegative(isl.data)
            THEN IF isl.curve[p] >= 1 /\ isfinite(d)
                    /\ d.v + DefaultOuterclip * SeedRms < 0 THEN d ELSE NaN
            ELSE IF -isl.curve[p] >= 1 /\ isfinite(d)
                    /\ d.v - DefaultOuterclip * SeedRms > 0 THEN d ELSE NaN]

\* the first pixel of a set in raster order
firstOf(S) ==
    CHOOSE p \in S : \A q \in S :
        p = q \/ p[1] < q[1] \/ (p[1] = q[1] /\ p[2] < q[2])

\* lines 762-781: the island flag, and whether the whole array is the one
\* summit
seedFlag(isl) ==
    LET f == sizeFlag(Cardinality({p \in DOMAIN isl.data : isfinite(isl.data[p])}))
    IN  IF Min2(isl.nx, isl.ny) <= 2 \/ f # {} THEN f \cup {"FIXED2PSF"} ELSE f

tinyIsland(isl) == "FIXED2PSF" \in seedFlag(isl)

\* line 788: gen_flood_wrap(kappa_sigma, ones, 0, domask=False): region
\* number k of the finite pixels of kappa_sigma, with the array
\* kappa_sigma[xmin:xmax+1, ymin:ymax+1] it yields (xmax, ymax are the
\* exclusive stops of find_objects, the slice is clipped to the array)
floodSummit(isl, R, k) ==
    LET f == find_objects(R)
        box == { p \in DOMAIN isl.data :
                   /\ f.xstart <= p[1] /\ p[1] <= f.xstop
                   /\ f.ystart <= p[2] /\ p[2] <= f.ystop }
    IN  [n |-> k, xmin |-> f.xstart, xmax |-> f.xstop,
         ymin |-> f.ystart, ymax |-> f.ystop,
         summit |-> [p \in box |-> kappa_sigma(isl)[p]]]

\* lines 774-788: the summits, numbered in the order they are generated
\* (label numbers the regions in raster order of their first pixel)
summitsOf(isl) ==
    IF tinyIsland(isl)
    THEN { [n |-> 1, xmin |-> 0, xmax |-> isl.nx, ymin |-> 0, ymax |-> isl.ny,
            summit |-> isl.data] }
    ELSE LET mask == { p \in DOMAIN isl.data : isfinite(kappa_sigma(isl)[p]) }
             regions == Regions(mask)
             number(R) == 1 + Cardinality({ Q \in regions :
                              Q # R /\ firstOf(Q \cup R) \in Q })
         IN  { floodSummit(isl, R, number(R)) : R \in regions }

\* line 793: key=lambda x: np.nanmax(-1.*abs(x[0]))
sortKey(s) == maxOf({ -Abs(v) : v \in finiteValues(s.summit) })

\* line 793: sorted() is stable, summits of equal key keep their order
RECURSIVE sortedSummits(_)
sortedSummits(S) ==
    IF S = {} THEN <<>>
    ELSE LET s == CHOOSE t \in S : \A u \in S \ {t} :
                      \/ sortKey(t) < sortKey(u)
                      \/ (sortKey(t) = sortKey(u) /\ t.n < u.n)
         IN  <<s>> \o sortedSummits(S \ {s})

\* lines 812-815: the summit is passed over (rmsimg is SeedRms everywhere)
belowInnerclip(isl, s) ==
    LET F == { Abs(isl.data[p].v) :
                 p \in { q \in DOMAIN s.summit : isfinite(isl.data[q]) } }
    IN  F # {} /\ maxOf(F) < DefaultInnerclip * SeedRms

\* a parameter: its value and its bounds, when it has bounds
bounded(value, lo, hi) == [value |-> value, min |-> lo, max |-> hi, limited |-> TRUE]

unbounded(value) == [value |-> value, min |-> 0, max |-> 0, limited |-> FALSE]

\* lines 794-905: the parameters of one summit
summitSeed(isl, s) ==
    LET F == finiteValues(s.summit)
        amp == IF isnegative(isl.data) THEN minOf(F) ELSE maxOf(F)
        peak == firstOf({ p \in DOMAIN s.summit :
                            isfinite(s.summit[p]) /\ s.summit[p].v = amp })
        xo == 1000 * peak[1]
        yo == 1000 * peak[2]
        amp_lim == IF amp > 0
                   THEN <<95 * Min2(DefaultOuterclip * SeedRms, amp),
                          105 * amp + 100 * DefaultInnerclip * SeedRms>>
                   ELSE <<105 * amp - 100 * DefaultInnerclip * SeedRms,
                          95 * Max2(-DefaultOuterclip * SeedRms, amp)>>
        slack(lo, hi) == IF lo = hi THEN <<lo - 500, hi + 500>> ELSE <<lo, hi>>
        xo_b == slack(Max2(1000 * s.xmin, xo - xo_lim), Min2(1000 * s.xmax, xo + xo_lim))
        yo_b == slack(Max2(1000 * s.ymin, yo - xo_lim), Min2(1000 * s.ymax, yo + xo_lim))
        size == Max2(s.xmax - s.xmin + 1, s.ymax - s.ymin + 1)
        s_max == Max2((size + 1) * 141, (110 * seedSx) \div 100)
    IN  [amp |-> bounded(100 * amp, amp_lim[1], amp_lim[2]),
         xo |-> bounded(xo, xo_b[1], xo_b[2]),
         yo |-> bounded(yo, yo_b[1], yo_b[2]),
         sx |-> bounded(seedSx, shapeMin(seedSx), s_max),
         sy |-> bounded(seedSy, shapeMin(seedSy), s_max),
         theta |-> bounded(pixbeam.pa, -180, 180),
         flags |-> seedFlag(isl)]

\* lines 790-912 with max_summits = None: component i of the result is the
\* i-th summit, in sorted order, that is not passed over
estimate_lmfit_pixels(isl) ==
    LET kept == SelectSeq(sortedSummits(summitsOf(isl)),
                          LAMBDA s : ~belowInnerclip(isl, s))
    IN  [i \in 1 .. Len(kept) |-> summitSeed(isl, kept[i])]

\* int(round(v)) of Python 2 for a value in thousandths: a half rounds away
\* from zero
round1000(v) ==
    IF v >= 0 THEN (v + 500) \div 1000 ELSE -((500 - v) \div 1000)

\* fwhm2cc = 1 / (2 sqrt(2 ln 2)) = 0.4247, in thousandths
fwhm2cc == 425

MaxFwhm == 4

\* the image priorized_fit_source cuts the islands from
PriorShape == <<4, 4>>

\* the catalog sources: the pixel position sky2pix gives (from half a pixel
\* before the image to its last pixel), the major and minor axes
\* sky2pix_vec gives in pixels, the peak flux
PriorSources(maxfwhm) ==
    { s \in [source_x : { 500 * k - 500 : k \in 0 .. (2 * PriorShape[1] - 1) },
             source_y : {0, 1000 * (PriorShape[2] - 1)},
             a : 1 .. maxfwhm, b : 1 .. maxfwhm, peak_flux : {-3, 3}] :
        s.b <= s.a }

\* lines 2941-2953: the test that passes over a source (data and rms are
\* finite everywhere)
priorUsable(src) ==
    /\ 0 <= round1000(src.source_x) /\ round1000(src.source_x) < PriorShape[1]
    /\ 0 <= round1000(src.source_y) /\ round1000(src.source_y) < PriorShape[2]

\* lines 2955-2998: the parameters of the one component
priorSeed(src) ==
    LET x == round1000(src.source_x)
        y == round1000(src.source_y)
        sx == fwhm2cc * Max2(src.a, src.b)
        sy == fwhm2cc * Min2(src.a, src.b)
        xwidth == round1000(2 * sx) + 1
        ywidth == round1000(2 * sx) + 1
        xmin == Max2(0, x - xwidth \div 2)
        ymin == Max2(0, y - ywidth \div 2)
    IN  [amp |-> unbounded(2 * src.peak_flux),
         xo |-> bounded(src.source_x - 1000 * xmin, 0, 1000 * xwidth),
         yo |-> bounded(src.source_y - 1000 * ymin, 0, 1000 * ywidth),
         sx |-> bounded(sx, 1000, 1000 * xwidth),
         sy |-> bounded(sy, 1000, 1000 * ywidth),
         theta |-> unbounded(0),
         flags |-> {}]

NoIsland == [nx |-> 0, ny |-> 0, data |-> <<>>, curve |-> <<>>]

NoSource == [source_x |-> 0, source_y |-> 0, a |-> 0, b |-> 0, peak_flux |-> 0]

SeedInit ==
    /\ \/ \E nx \in 1 .. MaxSeedSide, ny \in 1 .. MaxSeedSide, s \in {-1, 1} :
             \E L \in { S \in SUBSET pixelsOf(nx, ny) : Cardinality(S) <= MaxSpecial } :
                \E sp \in [L -> SpecialPixels(s)] :
                   /\ seededIsland(islandOf(nx, ny, s, L, sp))
                   /\ sarg = [fn |-> "estimate_lmfit_parinfo",
                              island |-> islandOf(nx, ny, s, L, sp),
                              src |-> NoSource]
       \/ \E src \in PriorSources(MaxFwhm) :
             sarg = [fn |-> "priorized_fit_source", island |-> NoIsland, src |-> src]
    /\ sret = [pc |-> "call", params |-> <<>>]
    /\ FloodRest
    /\ FitRest
    /\ FindRest
    /\ BaneRest
    /\ KernelRest
    /\ PriorRest
    /\ ItergenRest
    /\ TileRest
    /\ LookupRest

\* estimate_lmfit_parinfo returns the parameters of the island
estimate_lmfit_parinfo_return ==
    /\ sret.pc = "call"
    /\ sarg.fn = "estimate_lmfit_parinfo"
    /\ sret' = [pc |-> "done", params |-> estimate_lmfit_pixels(sarg.island)]
    /\ UNCHANGED sarg
    /\ UNCHANGED <<floodVars, fitVars, findVars, baneVars, kernelVars, priorVars>>
    /\ UNCHANGED <<itergenVars, tileVars, lookupVars>>

\* lines 2949-2953: priorized_fit_source passes over a source outside the
\* image
priorized_fit_source_skip ==
    /\ sret.pc = "call"
    /\ sarg.fn = "priorized_fit_source"
    /\ ~priorUsable(sarg.src)
    /\ sret' = [pc |-> "skipped", params |-> <<>>]
    /\ UNCHANGED sarg
    /\ UNCHANGED <<floodVars, fitVars, findVars, baneVars, kernelVars, priorVars>>
    /\ UNCHANGED <<itergenVars, tileVars, lookupVars>>

\* lines 2955-2998: priorized_fit_source sets up the parameters of a source
priorized_fit_source_seed ==
    /\ sret.pc = "call"
    /\ sarg.fn = "priorized_fit_source"
    /\ priorUsable(sarg.src)
    /\ sret' = [pc |-> "done", params |-> <<priorSeed(sarg.src)>>]
    /\ UNCHANGED sarg
    /\ UNCHANGED <<floodVars, fitVars, findVars, baneVars, kernelVars, priorVars>>
    /\ UNCHANGED <<itergenVars, tileVars, lookupVars>>

SeedNext ==
    \/ estimate_lmfit_parinfo_return
    \/ priorized_fit_source_skip
    \/ priorized_fit_source_seed

SpecSeed == SeedInit /\ [][SeedNext]_vars

-----------------------------------------------------------------------------

(* Claims about gen_flood_wrap *)

\* |data[p]|/rmsimg[p] of a pixel of a yielded array
yieldedSnr(isl, p) == snrOf(isl.pixels[p], frms[p])

\* C1 (segmentation monotonicity): with seed_clip >= flood_clip, every finite
\* pixel of every yielded island array has |data|/rms >= flood_clip, and at
\* least one finite pixel of the array has |data|/rms >= seed_clip.
C1_SegmentationMonotonicity ==
    \A k \in 1 .. Len(fout) :
        LET yielded == fout[k]
        IN  /\ \A p \in yielded.box :
                  isfinite(yielded.pixels[p]) => snrGe(yieldedSnr(yielded, p), fclip.outer)
            /\ \E p \in yielded.box :
                  /\ isfinite(yielded.pixels[p])
                  /\ snrGe(yieldedSnr(yielded, p), fclip.inner)

\* C2 (seed rule per region): with no sky mask, once the generator has
\* returned, labelled region k was yielded if and only if the maximum of
\* |data|/rms over the pixels of region k itself is >= seed_clip.
C2_SeedRulePerRegion ==
    (fpc = "done" /\ ~fregion) =>
        LET mask == aboveMask(fsnr, fclip.outer)
        IN  \A k \in 1 .. Cardinality(Regions(mask)) :
                (\E n \in 1 .. Len(fout) : fout[n].label = k)
                    <=> (\E p \in label(mask, k) : snrGe(fsnr[p], fclip.inner))

\* C19 (immutable per-image state): no step of gen_flood_wrap changes a
\* pixel of the data array (global_data.data_pix) or of the rms array.
C19_ImmutableImage == [][fdata' = fdata /\ frms' = frms]_vars

\* the finite pixels of a yielded array
finitePixels(yielded) == {p \in yielded.box : isfinite(yielded.pixels[p])}

\* C20 (island contiguity): the finite pixels of every yielded array are
\* exactly the pixels of the labelled region the array was cut for.
C20_IslandContiguity ==
    \A k \in 1 .. Len(fout) :
        finitePixels(fout[k]) = label(aboveMask(fsnr, fclip.outer), fout[k].label)

-----------------------------------------------------------------------------
(* Claims about the components of one island *)

\* a component has been reported, by either path
Reported == comp.via # "none"

inPaRange(x) == -90 < x /\ x <= 90

\* pa_limit over every whole angle up to MaxPa either way: the result is in
\* (-90, 90] and differs from the input by a multiple of 180
paLimitLaw ==
    \A x \in -MaxPa .. MaxPa :
        inPaRange(pa_limit(x)) /\ (pa_limit(x) - x) % 180 = 0

AllErrors == {"err_ra", "err_dec", "err_a", "err_b", "err_pa",
              "err_peak_flux", "err_int_flux"}

\* C5 (fixed-parameter errors): every component of result_to_components has
\* error -1 for each parameter held fixed: xo/yo -> err_ra, err_dec;
\* sx/sy -> err_a, err_b; theta -> err_pa; amp -> err_peak_flux,
\* err_int_flux.
C5_FixedParameterErrors ==
    comp.via = "lmfit" =>
        /\ (~comp.vary.xo \/ ~comp.vary.yo) =>
              (comp.err_ra = Fl(-1) /\ comp.err_dec = Fl(-1))
        /\ (~comp.vary.sx \/ ~comp.vary.sy) =>
              (comp.err_a = Fl(-1) /\ comp.err_b = Fl(-1))
        /\ ~comp.vary.theta => comp.err_pa = Fl(-1)
        /\ ~comp.vary.amp =>
              (comp.err_peak_flux = Fl(-1) /\ comp.err_int_flux = Fl(-1))

\* a component with a fixed shape and a fitted peak: calc_errors gave the
\* peak an error, and the error of the shape was replaced by -1
C5_Witness ==
    /\ comp.via = "lmfit"
    /\ ~comp.vary.sx /\ comp.vary.amp
    /\ comp.err_peak_flux = Fl(1)
    /\ comp.err_a = Fl(-1)

\* C6 (under-determined island): when the free parameters outnumber the
\* finite pixels, fit_island_lmfit calls no optimiser and every component
\* carries NOTFIT, reports the seed values and has every error equal to -1.
C6_UnderDetermined ==
    (lmfit_available /\ qpc # "start" /\ isle.npix < free_vars(params)) =>
        /\ ~optimised
        /\ comp.via = "lmfit" =>
              /\ "NOTFIT" \in comp.flags
              /\ comp.val = params[comp.source + 1].val
              /\ \A e \in AllErrors : comp[e] = Fl(-1)

\* C7 (too-small island): an island of 3 or fewer finite pixels is never
\* passed to the optimiser, and every component reported for it carries
\* NOTFIT and has every error equal to -1.
C7_TooSmall ==
    (qpc # "start" /\ isle.npix <= 3) =>
        /\ ~optimised
        /\ Reported =>
              /\ "NOTFIT" \in comp.flags
              /\ \A e \in AllErrors : comp[e] = Fl(-1)

\* the entries of the returned list that are components
componentEntries == {n \in 1 .. Len(sources) : sources[n].source >= 0}

inRaRange(x) == 0 <= x /\ x < 360

C16_FitErrorHandling ==
    (lmfit_available /\ optimised /\ ~success) =>
        /\ comp.via = "lmfit" =>
              /\ "FITERR" \in comp.flags
              /\ comp.val = params[comp.source + 1].val
              /\ \A e \in AllErrors : comp[e] = Fl(-1)
        /\ qpc = "done" => Cardinality(componentEntries) = Len(params)

PositionShapeErrors == {"err_ra", "err_dec", "err_a", "err_b", "err_pa"}

\* C17 (WCSError handling): result_to_components never abandons an island
\* over a sky value that is not finite; a component whose ra, dec, a or pa
\* is not finite is reported with WCSERR and with err_ra, err_dec, err_a,
\* err_b and err_pa equal to -1.
C17_WCSErrorHandling ==
    lmfit_available =>
        /\ qpc # "raised"
        /\ (comp.via = "lmfit" /\ ~allFinite(comp.ra, comp.dec, comp.a, comp.pa)) =>
              /\ "WCSERR" \in comp.flags
              /\ \A e \in PositionShapeErrors : comp[e] = Fl(-1)

-----------------------------------------------------------------------------
(* Claims about find_sources_in_image *)

\* OutputSource.__cmp__ (lines 359-374): island first, then source
before(s, t) == s[1] < t[1] \/ (s[1] = t[1] /\ s[2] < t[2])

\* C3 (catalog order): the list returned by find_sources_in_image is in
\* ascending (island, source) order, with one core and with several,
\* whatever the order in which the workers finish their groups.
C3_CatalogOrder ==
    gpc = "done" =>
        \A n \in 1 .. Len(found) - 1 : before(found[n], found[n + 1])

\* the yields that were given an id
keptYields == {n \in 1 .. Len(ids) : ids[n] # 0}

\* C12 (island ids): the k-th island that is kept gets id k, so the ids are
\* unique and run 1, 2, 3, ... in the order of the yields, an island passed
\* over consumes none, and the ids do not depend on the number of cores;
\* every id a worker is given, and every island number in the returned
\* list, is one of them.
C12_IslandIds ==
    /\ \A n \in keptYields :
          ids[n] = Cardinality({m \in keptYields : m <= n})
    /\ isle_num = Cardinality(keptYields)
    /\ \A n \in 1 .. Len(island_group) :
          island_group[n] = isle_num - Len(island_group) + n
    /\ \A n \in 1 .. Len(found) : found[n][1] \in 1 .. isle_num

\* the number of finite pixels of a yielded array
validPixels(yielded) ==
    Cardinality({p \in yielded.box : isfinite(yielded.pixels[p])})

\* C13 (minimum island size): every island the generator yielded with one
\* valid pixel or none is given no id (and so is never fitted).
C13_MinimumIslandSize ==
    \A n \in 1 .. Len(ids) : validPixels(fout[n]) <= 1 => ids[n] = 0

\* with several cores, an island was passed over between two islands that
\* were kept, and the list was returned
C12_Witness ==
    /\ gpc = "done"
    /\ cores > 1
    /\ Len(ids) >= 3
    /\ ids[1] = 1 /\ ids[2] = 0 /\ ids[3] = 2
    /\ Len(found) >= 2

-----------------------------------------------------------------------------
(* Claims about priorized fitting *)

\* the parameters of a component that the optimiser may change
freeParameters(c) == {n \in ParNames : c.vary[n]}

C15_PriorizedNumbering ==
    \A n \in 1 .. Len(prior_out) :
        /\ prior_out[n].island = input_sources[prior_out[n].row].island
        /\ prior_out[n].source = input_sources[prior_out[n].row].source

-----------------------------------------------------------------------------
(* Claims about robust_bane *)

\* C10 (mask preservation): a pixel of the maps robust_bane returns is NaN
\* if and only if the input pixel at that position is NaN.
C10_MaskPreservation ==
    bpc = "returned" =>
        \A p \in pixelsOf(image.h, image.w) : bkgrms[p].nan <=> image.px[p].nan

\* a size of get_kernel that has to be derived from the beam
beamDerived(size) == size = None \/ size < 0

\* C18 (missing beam): get_kernel raises the missing-beam ValueError exactly
\* when step_size or box_size has to be derived from the beam and the
\* header holds no beam; for every other combination of the arguments it
\* returns.
C18_MissingBeam ==
    kret.raised # "pending" =>
        IF /\ beamDerived(kargs.step_size) \/ beamDerived(kargs.box_size)
           /\ ~kargs.header.beam
        THEN kret.raised = "ValueError"
        ELSE kret.raised = "none"

\* C11 (background determinism): the second run of robust_bane on the same
\* image and header returns the background and RMS maps the first run
\* returned.
C11_BackgroundDeterminism ==
    (bpc = "returned" /\ bcalls = 2) => bkgrms = bfirst

\* C22 (max_summits): with max_summits = m, exactly the seeded components
\* of index >= m carry FIXED2PSF and NOTFIT and have all six parameters
\* fixed; those of index < m do not carry NOTFIT and have amp, xo, yo free.
C22_MaxSummits ==
    (qpc # "start" /\ isle.max_summits.given) =>
        \A c \in 1 .. Len(params) :
            IF c - 1 >= isle.max_summits.n
            THEN /\ {"FIXED2PSF", "NOTFIT"} \subseteq params[c].flags
                 /\ \A n \in ParNames : ~params[c].vary[n]
            ELSE /\ "NOTFIT" \notin params[c].flags
                 /\ params[c].vary.amp /\ params[c].vary.xo /\ params[c].vary.yo

\* C25 (even downsampling): for every image shape and step_size the
\* downsampled working image of robust_bane has an even number of rows and
\* of columns, so the assertion of lines 235-236 never fails.
C25_EvenDownsampling == bpc # "AssertionError"

\* the pixel of an axis of length n nearest to a position, clamped to the axis
nearestPixel(xo2, n) == Max2(Min2(round2(xo2), n - 1), 0)

\* C29 (local background lookup): the index used for background and
\* local_rms is the pixel nearest to the fitted position (round(xo),
\* round(yo)) inside the island's slice, clamped to the slice edges, and it
\* is always inside the slice.
C29_BackgroundLookup ==
    (lookup.pc = "done" /\ "x" \in DOMAIN lookup) =>
        /\ 0 <= lookup.x /\ lookup.x < lookup.nx
        /\ 0 <= lookup.y /\ lookup.y < lookup.ny
        /\ lookup.x = nearestPixel(lookup.xo, lookup.nx)
        /\ lookup.y = nearestPixel(lookup.yo, lookup.ny)

\* the places (group, position) of the yielded groups
yieldedPlaces ==
    { gn \in (1 .. Len(itergen.yielded)) \X (1 .. MaxCatalog) :
        gn[2] <= Len(itergen.yielded[gn[1]]) }

\* the groups island_itergen has yielded partition the catalog by island,
\* in ascending island id
groupedByIsland ==
    LET Y == itergen.yielded
    IN  /\ \A g \in 1 .. Len(Y) : Y[g] # <<>>
        /\ \A gn \in yieldedPlaces : Y[gn[1]][gn[2]] \in it_input
        /\ \A r \in it_input :
              Cardinality({gn \in yieldedPlaces : Y[gn[1]][gn[2]] = r}) = 1
        /\ \A gn, hm \in yieldedPlaces :
              (gn[1] = hm[1]) <=> (Y[gn[1]][gn[2]].island = Y[hm[1]][hm[2]].island)
        /\ \A gn, hm \in yieldedPlaces :
              gn[1] < hm[1] => Y[gn[1]][gn[2]].island < Y[hm[1]][hm[2]].island

\* C26 (grouping by island): on a non-empty catalog with integer island ids
\* island_itergen terminates, and what it has yielded by then are non-empty
\* groups, every source in exactly one group, one island id per group and
\* one group per island id, in ascending island id.
C26_GroupingByIsland ==
    /\ <>(itergen.pc = "done")
    /\ [](itergen.pc = "done" /\ it_input # {} => groupedByIsland)

\* the generator has returned after yielding a group of two sources and,
\* across the gap in the ids, a group of one
C26_Witness ==
    /\ itergen.pc = "done"
    /\ it_input # {}
    /\ Len(itergen.yielded) = 2
    /\ Len(itergen.yielded[1]) = 2
    /\ itergen.yielded[1][1].island = 2
    /\ itergen.yielded[2][1].island = 4

\* C27 (tile coverage): when make_bkg_rms_from_global returns, every pixel
\* of the background and RMS maps has been written from exactly one tile.
C27_TileCoverage ==
    tpc = "done" /\ DOMAIN bkgimg # {} =>
        \A p \in pixelsOf(tile_arg.img_x, tile_arg.img_y) : bkgimg[p].n = 1

\* the values of the two maps
mapValues(maps) == [p \in DOMAIN maps |-> <<maps[p].bkg, maps[p].rms>>]

\* C28 (core-count independence): the maps a run with cores > 1 ends with
\* are the maps the run with cores = 1 gives for the same image and mesh.
C28_CoreIndependence ==
    (tpc = "done" /\ DOMAIN bkgimg # {} /\ tile_arg.cores > 1) =>
        mapValues(bkgimg) =
            mapValues(write_queue(zero_maps(tile_arg),
                                  tile_queue([tile_arg EXCEPT !.cores = 1]), 1))

\* the number of times island n has been handed to fitting: its results in
\* the queue (every fit gives a component 0) and the groups workers hold
submissions(n) ==
    Cardinality({k \in 1 .. Len(collect(queue)) : collect(queue)[k] = <<n, 0>>})
    + Cardinality({gk \in inflight \X (1 .. group_size) :
                      gk[2] <= Len(gk[1]) /\ gk[1][gk[2]] = n})

\* the number of times island n stands in the group being filled
waiting(n) == Cardinality({k \in 1 .. Len(island_group) : island_group[k] = n})

\* C30 (every island is fitted exactly once): each island that received an
\* id has been submitted to fitting once or waits once in the group being
\* filled; with one core none waits; a group holds at most group_size
\* islands; once the segmenter is exhausted every island has been
\* submitted exactly once.
C30_FittedOnce ==
    /\ \A n \in 1 .. isle_num : submissions(n) + waiting(n) = 1
    /\ cores = 1 => island_group = <<>> /\ inflight = {}
    /\ Len(island_group) < group_size
    /\ \A group \in inflight : Len(group) <= group_size
    /\ gpc \in {"collect", "done"} =>
          \A n \in 1 .. isle_num : submissions(n) = 1 /\ waiting(n) = 0

\* with several cores, a full group and a partly filled last group were
\* submitted and fitted, and the list was returned
C30_Witness ==
    /\ gpc = "done"
    /\ cores > 1
    /\ isle_num > group_size
    /\ Len(queue) = 2
    /\ \A n \in 1 .. isle_num : \E k \in 1 .. Len(found) : found[k] = <<n, 0>>

\* estimate_lmfit_parinfo has returned the seeds of an island
seeded == sret.pc = "done" /\ sarg.fn = "estimate_lmfit_parinfo"

\* C21 (summit ordering): the components seeded for one island are numbered
\* in order of descending absolute peak: |amp_i| >= |amp_j| for i < j.
C21_SummitOrdering ==
    seeded =>
        \A i, k \in 1 .. Len(sret.params) :
            i < k => Abs(sret.params[i].amp.value) >= Abs(sret.params[k].amp.value)

\* C23 (seed bounds): every seed of estimate_lmfit_parinfo and of
\* priorized_fit_source has lo <= value <= hi for each bounded parameter of
\* amp, xo, yo, sx, sy, theta, and sx > 0 and sy > 0.
C23_SeedBounds ==
    sret.pc = "done" /\ sarg.fn # "none" =>
        \A i \in 1 .. Len(sret.params) :
            /\ \A n \in ParNames :
                  LET par == sret.params[i][n]
                  IN  par.limited => par.min <= par.value /\ par.value <= par.max
            /\ sret.params[i].sx.value > 0
            /\ sret.params[i].sy.value > 0

\* the sign of an island by its finite pixel of largest absolute value
isnegative_by_peak(data) ==
    LET F == finiteValues(data)
    IN  \E v \in F : v < 0 /\ \A u \in F : Abs(u) <= Abs(v)

\* C24 (sign detection): the estimator treats the island as negative exactly
\* when its finite pixel of largest absolute value is negative; the
\* amplitude bounds of a negative island have hi <= 0, those of any other
\* island lo >= 0.
C24_SignDetection ==
    seeded =>
        /\ isnegative(sarg.island.data) <=> isnegative_by_peak(sarg.island.data)
        /\ \A i \in 1 .. Len(sret.params) :
              IF isnegative_by_peak(sarg.island.data)
              THEN sret.params[i].amp.max <= 0
              ELSE sret.params[i].amp.min >= 0

=============================================================================
